---- MODULE Spec2Model ----
(***************************************************************************)
(* A model of the dbcat metadata catalog: the get-or-create store          *)
(* (Catalog._create and the add_* operations built on it), the include /   *)
(* exclude pattern filter (filter_objects, DbScanner._test_regex), the     *)
(* scan orchestrator (DbScanner.scan, scan_sources), the latest-job-       *)
(* execution and lineage queries, the point lookups and searches,          *)
(* open_catalog, Catalog.managed_session and table_generator.              *)
(*                                                                         *)
(* Conventions.  A row of the store is a record [id, key, extra]; `key'    *)
(* is the tuple of the columns Catalog._create passes as **kwargs (the     *)
(* columns it re-selects by), `extra' the columns passed through           *)
(* create_method_kwargs.  A NULL foreign key is the id 0 (surrogate ids    *)
(* start at 1).  Names are sequences of one-character strings.             *)
(***************************************************************************)
EXTENDS Integers, Sequences, FiniteSets, TLC

VARIABLES
    db,        \* kind -> set of committed rows
    nextId,    \* kind -> next surrogate id of the table's sequence
    pc,        \* session -> position inside Catalog._create
    op,        \* session -> the call in progress [kind, key, extra]
    pending,   \* session -> rows inserted by the session's open transaction
    result,    \* session -> id of the row the last call returned (0: none)
    error,     \* session -> exception the last call raised ("none": none)
    seen,      \* session -> rows with the call's key when the call began
    calls,     \* number of get-or-create calls started so far
    fpc,       \* filter_objects: "call" before the call, "done" after it
    fIn,       \* filter_objects: its arguments [objects, include, exclude]
    fOut,      \* filter_objects: the list it returned
    spc,       \* position inside scan_sources / DbScanner.scan
    ssQueue,   \* scan_sources: ids of the sources still to scan
    ssResult,  \* scan_sources: "returned" or the exception it raised
    sFilters,  \* the four pattern lists of the scan
    ssNames,   \* scan_sources: its source_names argument
    sSource,   \* DbScanner._source: id of the source being scanned
    eState,    \* the extractor: "none", "open" or "closed"
    eCount,    \* number of records the extractors have returned so far
    eLast,     \* the record the last extract() returned (NoRecord: None)
    record,    \* scan: the record being persisted
    current_schema, \* scan: the Schema row the cursor is on
    table,     \* scan: the Table row of the record
    index,     \* scan: position of the next column of the record
    counts,    \* scan: schema_count, table_count, column_count
    sOutcome,  \* how the last DbScanner.scan ended ("ok" or the exception)
    dbAtStart, \* the rows of the store when the last DbScanner.scan began
    tableNew,  \* whether add_table inserted the row of `table'
    anyPassed, \* whether a record of the scan has passed both filters
    stream,    \* scan: the records extract() has returned, in order
    persisted, \* scan: the records whose rows have been added, in order
    jpc,       \* get_latest_job_executions: "none" before a call, "done" after
    job_ids,   \* get_latest_job_executions: its argument
    latest,    \* get_latest_job_executions: the list it returned
    lpc,       \* get_column_lineages: "none" before a call, "done" after
    lin_job_ids, \* get_column_lineages: its argument (None or a list)
    lineages,  \* get_column_lineages: the rows it returned
    lookup,    \* the last point lookup or search: [op, names, id, error]
    openArgs,  \* open_catalog: its arguments and the files it finds
    opened,    \* open_catalog: what it returned or raised
    _current_session, \* Catalog._current_session: "none" or "scoped"
    frames,    \* thread -> its active managed_session blocks, innermost last
    tpc,       \* thread -> position inside managed_session
    registry,  \* thread -> whether the scoped_session holds its session
    opError,   \* thread -> exception of its last catalog operation
    exitPath,  \* thread -> how it left its last block ("return", "exception")
    entries,   \* number of managed_session entries so far
    removes,   \* number of scoped_session.remove() calls so far
    gpc,       \* position inside table_generator
    gArgs,     \* table_generator: its source and pattern lists
    gSchemata, \* table_generator: the schema objects still to visit
    gSchema,   \* table_generator: id of the schema of the current iteration
    gTables,   \* table_generator: the table objects still to yield
    yielded    \* table_generator: the (schema id, table id) pairs yielded

storeVars == <<db, nextId>>
sessVars == <<pc, op, pending, result, error, seen, calls>>
filterVars == <<fpc, fIn, fOut>>
scanVars == <<spc, ssQueue, ssResult, sFilters, ssNames, sSource, eState, eCount,
              eLast, record, current_schema, table, index, counts, sOutcome,
              dbAtStart, tableNew, anyPassed, stream, persisted>>
jobVars == <<jpc, job_ids, latest>>
lineageVars == <<lpc, lin_job_ids, lineages>>
lookupVars == <<lookup>>
openVars == <<openArgs, opened>>
managedVars == <<_current_session, frames, tpc, registry, opError, exitPath,
                 entries, removes>>
generatorVars == <<gpc, gArgs, gSchemata, gSchema, gTables, yielded>>
vars == <<db, nextId, pc, op, pending, result, error, seen, calls,
          fpc, fIn, fOut,
          spc, ssQueue, ssResult, sFilters, ssNames, sSource, eState, eCount,
          eLast, record, current_schema, table, index, counts, sOutcome,
          dbAtStart, tableNew, anyPassed, stream, persisted, jpc, job_ids, latest,
          lpc, lin_job_ids, lineages, lookup, openArgs, opened,
          _current_session, frames, tpc, registry, opError, exitPath,
          entries, removes, gpc, gArgs, gSchemata, gSchema, gTables, yielded>>

----------------------------------------------------------------------------
(* Bounds *)

MaxCalls == 2

MaxObjects == 2

MaxRecords == 3

MaxExecutions == 3

MaxTime == 2

MaxJobIds == 2

MaxRows == 3

\* Nesting depth of managed_session blocks of one thread.
MaxDepth == 2

\* Number of managed_session entries.
MaxEntries == 3

Sessions == {1, 2}

Null == 0

----------------------------------------------------------------------------
(* The entity model: tables, their unique constraints                       *)

Kinds == {"sources", "schemata", "tables", "columns", "jobs",
          "job_executions", "column_lineage"}

\* The entity model with the unique constraint of column_lineage left out.
UniqueConstraintsNoLineage(kind) ==
    CASE kind = "sources" -> {{1}}
      [] kind = "schemata" -> {{1, 2}}
      [] kind = "tables" -> {{1, 2}}
      [] kind = "columns" -> {{1, 2}}
      [] kind = "jobs" -> {{2}, {1, 2}}
      [] kind = "job_executions" -> {}
      [] kind = "column_lineage" -> {}

\* The unique constraints of each table, each a set of positions of `key'.
UniqueConstraints(kind) ==
    CASE kind = "sources" -> {{1}}
      [] kind = "schemata" -> {{1, 2}}
      [] kind = "tables" -> {{1, 2}}
      [] kind = "columns" -> {{1, 2}}
      [] kind = "jobs" -> {{2}, {1, 2}}
      [] kind = "job_executions" -> {}
      [] kind = "column_lineage" -> {{1, 2, 3}}

\* The positions of `key' that hold a foreign key (an id, possibly NULL);
\* the other positions hold names, which the callers never pass as None.
ForeignKeys(kind) ==
    CASE kind = "sources" -> {}
      [] kind = "schemata" -> {1}
      [] kind = "tables" -> {1}
      [] kind = "columns" -> {1}
      [] kind = "jobs" -> {1}
      [] kind = "job_executions" -> {1}
      [] kind = "column_lineage" -> {1, 2, 3}

\* Two rows collide on a unique constraint when they agree on all of its
\* columns and none of them is NULL (SQL: NULLs are distinct in UNIQUE).
Collide(kind, k1, k2) ==
    \E uc \in UniqueConstraints(kind) :
        \A i \in uc :
            /\ k1[i] = k2[i]
            /\ ~(i \in ForeignKeys(kind) /\ k1[i] = Null)

\* session.query(model).filter_by(**kwargs): the rows whose key columns equal
\* the call's kwargs.  add_source passes every attribute as **kwargs, so its
\* re-select filters on the attributes too.
FilterBy(kind, key, extra, rows) ==
    IF kind = "sources"
    THEN {r \in rows : r.key = key /\ r.extra = extra}
    ELSE {r \in rows : r.key = key}

\* Query.one(): the single matching row, or the exception it raises.
One(rows) ==
    IF Cardinality(rows) = 1
    THEN [id |-> (CHOOSE r \in rows : TRUE).id, error |-> "none"]
    ELSE IF rows = {}
         THEN [id |-> 0, error |-> "NoResultFound"]
         ELSE [id |-> 0, error |-> "MultipleResultsFound"]

----------------------------------------------------------------------------
(* Parameters of the calls made by the concurrent sessions                  *)

StoreNames == {<<"a">>, <<"b">>}

ParentIds == {Null, 1}

NoExtra == [none |-> TRUE]

SourceAttrs == {[source_type |-> "sqlite", uri |-> "u1"],
                [source_type |-> "sqlite", uri |-> "u2"]}

ColumnAttrs == {[data_type |-> "int", sort_order |-> 0,
                 pii_type |-> "null", pii_plugin |-> "null"],
                [data_type |-> "text", sort_order |-> 1,
                 pii_type |-> "null", pii_plugin |-> "null"]}

Contexts == {[context |-> "c1"], [context |-> "c2"]}

----------------------------------------------------------------------------
(* Catalog._create, one step per store interaction                          *)

\* created = model(**create_method_kwargs); session.add(created)
create_add(s, kind, key, extra) ==
    /\ pc[s] \in {"idle", "done"}
    /\ calls < MaxCalls
    /\ calls' = calls + 1
    /\ op' = [op EXCEPT ![s] = [kind |-> kind, key |-> key, extra |-> extra]]
    /\ seen' = [seen EXCEPT ![s] = {r \in db[kind] : r.key = key}]
    /\ pc' = [pc EXCEPT ![s] = "flush"]
    /\ result' = [result EXCEPT ![s] = 0]
    /\ error' = [error EXCEPT ![s] = "none"]
    /\ UNCHANGED <<db, nextId, pending, filterVars, jobVars, lineageVars, lookupVars, scanVars, openVars, managedVars, generatorVars>>

\* A store that checks uniqueness against the committed rows only and lets a
\* colliding insert of another open transaction through.
create_flush_nowait(s) ==
    /\ pc[s] = "flush"
    /\ LET kind == op[s].kind
           key == op[s].key
       IN IF \E r \in db[kind] : Collide(kind, r.key, key)
          THEN /\ pc' = [pc EXCEPT ![s] = "rollback"]
               /\ UNCHANGED <<db, nextId, pending>>
          ELSE /\ pending' = [pending EXCEPT ![s] =
                     {[kind |-> kind,
                       row |-> [id |-> nextId[kind], key |-> key,
                                extra |-> op[s].extra]]}]
               /\ nextId' = [nextId EXCEPT ![kind] = @ + 1]
               /\ pc' = [pc EXCEPT ![s] = "commit"]
               /\ UNCHANGED db
    /\ UNCHANGED <<op, result, error, seen, calls, filterVars, jobVars, lineageVars, lookupVars, scanVars, openVars, managedVars, generatorVars>>

\* session.commit(), first half: the INSERT.  The store checks the unique
\* constraints against the committed rows (IntegrityError) and waits while a
\* colliding row of another open transaction is undecided.
create_flush(s) ==
    /\ pc[s] = "flush"
    /\ LET kind == op[s].kind
           key == op[s].key
       IN IF \E r \in db[kind] : Collide(kind, r.key, key)
          THEN /\ pc' = [pc EXCEPT ![s] = "rollback"]
               /\ UNCHANGED <<db, nextId, pending>>
          ELSE /\ \A t \in Sessions \ {s} :
                     \A r \in pending[t] :
                         ~(r.kind = kind /\ Collide(kind, r.row.key, key))
               /\ pending' = [pending EXCEPT ![s] =
                     {[kind |-> kind,
                       row |-> [id |-> nextId[kind], key |-> key,
                                extra |-> op[s].extra]]}]
               /\ nextId' = [nextId EXCEPT ![kind] = @ + 1]
               /\ pc' = [pc EXCEPT ![s] = "commit"]
               /\ UNCHANGED db
    /\ UNCHANGED <<op, result, error, seen, calls, filterVars, jobVars, lineageVars, lookupVars, scanVars, openVars, managedVars, generatorVars>>

\* session.commit(), second half: COMMIT; return created
create_commit(s) ==
    /\ pc[s] = "commit"
    /\ db' = [k \in Kinds |->
                db[k] \cup {p.row : p \in {q \in pending[s] : q.kind = k}}]
    /\ result' = [result EXCEPT ![s] =
                    (CHOOSE p \in pending[s] : TRUE).row.id]
    /\ pending' = [pending EXCEPT ![s] = {}]
    /\ pc' = [pc EXCEPT ![s] = "done"]
    /\ UNCHANGED <<nextId, op, error, seen, calls, filterVars, jobVars, lineageVars, lookupVars, scanVars, openVars, managedVars, generatorVars>>

\* except IntegrityError: session.rollback()
create_rollback(s) ==
    /\ pc[s] = "rollback"
    /\ pending' = [pending EXCEPT ![s] = {}]
    /\ pc' = [pc EXCEPT ![s] = "reselect"]
    /\ UNCHANGED <<db, nextId, op, result, error, seen, calls, filterVars, jobVars, lineageVars, lookupVars, scanVars, openVars, managedVars, generatorVars>>

\* An upsert that, on conflict, overwrites the stored row's non-key columns
\* with the caller's values.
create_reselect_update(s) ==
    /\ pc[s] = "reselect"
    /\ LET kind == op[s].kind
           hit == FilterBy(kind, op[s].key, op[s].extra, db[kind])
           got == One(hit)
       IN /\ result' = [result EXCEPT ![s] = got.id]
          /\ error' = [error EXCEPT ![s] = got.error]
          /\ db' = [db EXCEPT ![kind] =
                      (@ \ hit) \cup {[r EXCEPT !.extra = op[s].extra] : r \in hit}]
    /\ pc' = [pc EXCEPT ![s] = "done"]
    /\ UNCHANGED <<nextId, op, pending, seen, calls, filterVars, jobVars, lineageVars, lookupVars, scanVars, openVars, managedVars, generatorVars>>

\* return session.query(model).filter_by(**kwargs).one()
create_reselect(s) ==
    /\ pc[s] = "reselect"
    /\ LET got == One(FilterBy(op[s].kind, op[s].key, op[s].extra,
                               db[op[s].kind]))
       IN /\ result' = [result EXCEPT ![s] = got.id]
          /\ error' = [error EXCEPT ![s] = got.error]
    /\ pc' = [pc EXCEPT ![s] = "done"]
    /\ UNCHANGED <<db, nextId, op, pending, seen, calls, filterVars, jobVars, lineageVars, lookupVars, scanVars, openVars, managedVars, generatorVars>>

----------------------------------------------------------------------------
(* The get-or-create operations                                             *)

add_source(s) ==
    \E name \in StoreNames, attrs \in SourceAttrs :
        create_add(s, "sources", <<name>>, attrs)

add_schema(s) ==
    \E name \in StoreNames, source_id \in ParentIds :
        create_add(s, "schemata", <<source_id, name>>, NoExtra)

add_table(s) ==
    \E name \in StoreNames, schema_id \in ParentIds :
        create_add(s, "tables", <<schema_id, name>>, NoExtra)

add_column(s) ==
    \E name \in StoreNames, table_id \in ParentIds, attrs \in ColumnAttrs :
        create_add(s, "columns", <<table_id, name>>, attrs)

\* The source argument of add_job: None or one of two sources.
JobSourceIds == ParentIds \cup {2}

add_job(s) ==
    \E name \in StoreNames, source_id \in JobSourceIds, ctx \in Contexts :
        create_add(s, "jobs", <<source_id, name>>, ctx)

add_column_lineage(s) ==
    \E job_execution_id \in {1, 2}, ctx \in Contexts :
        create_add(s, "column_lineage", <<1, 2, job_execution_id>>, ctx)

IdleStore ==
    /\ db = [k \in Kinds |-> {}]
    /\ nextId = [k \in Kinds |-> 1]
    /\ pc = [s \in Sessions |-> "idle"]
    /\ op = [s \in Sessions |->
               [kind |-> "sources", key |-> <<>>, extra |-> NoExtra]]
    /\ pending = [s \in Sessions |-> {}]
    /\ result = [s \in Sessions |-> 0]
    /\ error = [s \in Sessions |-> "none"]
    /\ seen = [s \in Sessions |-> {}]
    /\ calls = 0

\* No call of get_latest_job_executions has been made.
IdleJobs ==
    /\ jpc = "none"
    /\ job_ids = <<>>
    /\ latest = <<>>
    /\ lpc = "none"
    /\ lin_job_ids = [given |-> FALSE, list |-> <<>>]
    /\ lineages = {}
    /\ lookup = [op |-> "none", names |-> <<>>, id |-> 0, error |-> "none",
                 message |-> ""]

Threads == {1, 2}

\* No thread is inside a managed_session block.
IdleManaged ==
    /\ _current_session = "none"
    /\ frames = [t \in Threads |-> <<>>]
    /\ tpc = [t \in Threads |-> "run"]
    /\ registry = [t \in Threads |-> FALSE]
    /\ opError = [t \in Threads |-> "none"]
    /\ exitPath = [t \in Threads |-> "none"]
    /\ entries = 0
    /\ removes = 0

\* open_catalog has not been called.
IdleOpen ==
    /\ openArgs = [called |-> FALSE]
    /\ opened = [catalog |-> "none", error |-> "none", from |-> "none",
                 initialized |-> FALSE]

StoreStep ==
    \E s \in Sessions :
        \/ add_source(s)
        \/ add_schema(s)
        \/ add_table(s)
        \/ add_column(s)
        \/ add_job(s)
        \/ add_column_lineage(s)
        \/ create_flush(s)
        \/ create_commit(s)
        \/ create_rollback(s)
        \/ create_reselect(s)

----------------------------------------------------------------------------
(* The pattern filter: re.compile(exp, re.IGNORECASE).search(name)          *)

Range(seq) == {seq[i] : i \in 1..Len(seq)}

\* Case folding of the alphabet of the model.
Lower(c) == CASE c = "A" -> "a" [] c = "B" -> "b" [] OTHER -> c

\* One pattern character against one name character; "." matches any.
MatchChar(p, c) == p = "." \/ Lower(p) = Lower(c)

\* The pattern matches the name at offset i (the pattern is a sequence of
\* literal characters and "."); the patterns are compiled with re.IGNORECASE.
MatchAt(regex, name, i) ==
    /\ i + Len(regex) <= Len(name)
    /\ \A j \in 1..Len(regex) : MatchChar(regex[j], name[i + j])

\* regex.search(name) is not None: a match at some offset.
search(regex, name) == \E i \in 0..Len(name) : MatchAt(regex, name, i)

\* An optional list: None, or a list of pattern strings.
None == [given |-> FALSE, list |-> <<>>]

Some(list) == [given |-> TRUE, list |-> list]

\* `x is not None and len(x) > 0'
NonEmpty(opt) == opt.given /\ Len(opt.list) > 0

\* filter(lambda m: pred(m), objects): the sub-list, in order.
RECURSIVE Filter(_, _, _)
Filter(objects, regex, keepMatching) ==
    IF objects = <<>> THEN <<>>
    ELSE LET m == Head(objects)
             rest == Filter(Tail(objects), regex, keepMatching)
         IN IF search(regex, m.name) = keepMatching
            THEN <<m>> \o rest
            ELSE rest

\* for regex in include_regex: matched_set |= set(filter(search, objects))
RECURSIVE IncludeLoop(_, _, _)
IncludeLoop(include_regex, objects, matched_set) ==
    IF include_regex = <<>> THEN matched_set
    ELSE IncludeLoop(Tail(include_regex), objects,
                     matched_set \cup Range(Filter(objects, Head(include_regex), TRUE)))

\* An include stage that keeps the objects matching every pattern.
RECURSIVE IncludeLoopAll(_, _, _)
IncludeLoopAll(include_regex, objects, matched_set) ==
    IF include_regex = <<>> THEN matched_set
    ELSE IncludeLoopAll(Tail(include_regex), objects,
                        matched_set \cap Range(Filter(objects, Head(include_regex), TRUE)))

\* for regex in exclude_regex: objects = list(filter(search is None, objects))
RECURSIVE ExcludeLoop(_, _)
ExcludeLoop(exclude_regex, objects) ==
    IF exclude_regex = <<>> THEN objects
    ELSE ExcludeLoop(Tail(exclude_regex),
                     Filter(objects, Head(exclude_regex), FALSE))

\* list(matched_set): the elements of a set in some order.
ListsOf(set) ==
    {l \in [1..Cardinality(set) -> set] : Range(l) = set}

\* A filter whose include stage keeps the objects matching every pattern.
filter_objects_all(include_regex_str, exclude_regex_str, objects) ==
    LET stage1 == IF NonEmpty(include_regex_str)
                  THEN ListsOf(IncludeLoopAll(include_regex_str.list, objects,
                                              Range(objects)))
                  ELSE {objects}
    IN {IF NonEmpty(exclude_regex_str)
        THEN ExcludeLoop(exclude_regex_str.list, l)
        ELSE l : l \in stage1}

\* The lists filter_objects(include_regex_str, exclude_regex_str, objects) can
\* return.
filter_objects(include_regex_str, exclude_regex_str, objects) ==
    LET stage1 == IF NonEmpty(include_regex_str)
                  THEN ListsOf(IncludeLoop(include_regex_str.list, objects, {}))
                  ELSE {objects}
    IN {IF NonEmpty(exclude_regex_str)
        THEN ExcludeLoop(exclude_regex_str.list, l)
        ELSE l : l \in stage1}

\* Inputs of the filter
Names == {<<"a">>, <<"b">>, <<"A", "b">>, <<"b", "a">>, <<"c">>}

Patterns == {<<"a">>, <<"B">>, <<".", "b">>, <<"a", "b">>}

PatternLists ==
    {None, Some(<<>>)}
        \cup {Some(<<p>>) : p \in Patterns}
        \cup {Some(<<p, q>>) : p, q \in Patterns}

\* CatalogObject(name, id): the objects of a list have distinct ids.
ObjectLists ==
    UNION {{[i \in 1..n |-> [name |-> names[i], id |-> i]] :
                names \in [1..n -> Names]} : n \in 0..MaxObjects}

IdleFilter ==
    /\ fpc = "idle"
    /\ fIn = [objects |-> <<>>, include |-> None, exclude |-> None]
    /\ fOut = <<>>

InitFilterArgs ==
    /\ fpc = "call"
    /\ fIn \in [objects : ObjectLists, include : PatternLists,
                exclude : PatternLists]
    /\ fOut = <<>>

filter_objects_call ==
    /\ fpc = "call"
    /\ fOut' \in filter_objects(fIn.include, fIn.exclude, fIn.objects)
    /\ fpc' = "done"
    /\ UNCHANGED <<fIn, storeVars, sessVars, scanVars, jobVars, lineageVars, lookupVars, openVars, managedVars, generatorVars>>

----------------------------------------------------------------------------
(* Catalog._create as one session runs it, start to end                     *)

\* An upsert that overwrites the non-key columns of the stored row on conflict.
create_overwrite(kind, key, extra, rows, ids) ==
    IF \E r \in rows[kind] : Collide(kind, r.key, key)
    THEN LET hit == FilterBy(kind, key, extra, rows[kind])
             got == One(hit)
         IN [db |-> [rows EXCEPT ![kind] =
                       (@ \ hit) \cup {[r EXCEPT !.extra = extra] : r \in hit}],
             nextId |-> ids, id |-> got.id, error |-> got.error,
             created |-> FALSE]
    ELSE [db |-> [rows EXCEPT ![kind] =
                    @ \cup {[id |-> ids[kind], key |-> key, extra |-> extra]}],
          nextId |-> [ids EXCEPT ![kind] = @ + 1],
          id |-> ids[kind], error |-> "none", created |-> TRUE]

\* The rows and sequences after _create(kind, **key, extra) in a session that
\* no other session interleaves with, and what the call returns or raises:
\* the INSERT commits, or hits IntegrityError, is rolled back and the row is
\* re-selected by the call's kwargs.
_create(kind, key, extra, rows, ids) ==
    IF \E r \in rows[kind] : Collide(kind, r.key, key)
    THEN LET got == One(FilterBy(kind, key, extra, rows[kind]))
         IN [db |-> rows, nextId |-> ids, id |-> got.id, error |-> got.error,
             created |-> FALSE]
    ELSE [db |-> [rows EXCEPT ![kind] =
                    @ \cup {[id |-> ids[kind], key |-> key, extra |-> extra]}],
          nextId |-> [ids EXCEPT ![kind] = @ + 1],
          id |-> ids[kind], error |-> "none", created |-> TRUE]

----------------------------------------------------------------------------
(* DbScanner: the scan-time filter                                          *)

\* for regex in include_regex: passed |= regex.search(name) is not None
RECURSIVE IncludePassed(_, _, _)
IncludePassed(include_regex, name, passed) ==
    IF include_regex = <<>> THEN passed
    ELSE IncludePassed(Tail(include_regex), name,
                       passed \/ search(Head(include_regex), name))

\* for regex in exclude_regex: passed &= regex.search(name) is None
RECURSIVE ExcludePassed(_, _, _)
ExcludePassed(exclude_regex, name, passed) ==
    IF exclude_regex = <<>> THEN passed
    ELSE ExcludePassed(Tail(exclude_regex), name,
                       passed /\ ~search(Head(exclude_regex), name))

\* A filter in which an include match overrides the exclude patterns.
_test_regex_include_wins(name, include_regex, exclude_regex) ==
    IF NonEmpty(include_regex)
    THEN IncludePassed(include_regex.list, name, FALSE)
    ELSE IF NonEmpty(exclude_regex)
         THEN ExcludePassed(exclude_regex.list, name, TRUE)
         ELSE TRUE

\* A test that takes an empty include list for a list nothing matches.
_test_regex_empty_include(name, include_regex, exclude_regex) ==
    LET passed == IF include_regex.given
                  THEN IncludePassed(include_regex.list, name, FALSE)
                  ELSE TRUE
    IN IF NonEmpty(exclude_regex)
       THEN ExcludePassed(exclude_regex.list, name, passed)
       ELSE passed

\* DbScanner._test_regex(name, include_regex, exclude_regex)
_test_regex(name, include_regex, exclude_regex) ==
    LET passed == IF NonEmpty(include_regex)
                  THEN IncludePassed(include_regex.list, name, FALSE)
                  ELSE TRUE
    IN IF NonEmpty(exclude_regex)
       THEN ExcludePassed(exclude_regex.list, name, passed)
       ELSE passed

\* DbScanner.__init__: a pattern list is compiled when it is given and not
\* empty, and is None otherwise.
Compile(regex_str) == IF NonEmpty(regex_str) THEN regex_str ELSE None

\* The condition of _filter_rows under which a record is yielded.
Yielded(rec, f) ==
    /\ _test_regex(rec.schema, f.include_schema, f.exclude_schema)
    /\ _test_regex(rec.name, f.include_table, f.exclude_table)

----------------------------------------------------------------------------
(* Inputs of a scan: the registered sources, the records an extractor can   *)
(* report, the pattern lists a caller passes                                *)

SourceRows ==
    {[id |-> 1, key |-> <<<<"s">>>>,
      extra |-> [source_type |-> "sqlite", uri |-> "u1"]]}

SourceNameLists == {None, Some(<<<<"s">>>>), Some(<<<<"t">>, <<"s">>>>)}

\* TableMetadata: schema, name, columns
Records ==
    {[schema |-> <<"a">>, name |-> <<"a">>,
      columns |-> <<[name |-> <<"a">>, type |-> "int"],
                    [name |-> <<"b">>, type |-> "text"]>>],
     [schema |-> <<"a">>, name |-> <<"a">>,
      columns |-> <<[name |-> <<"b">>, type |-> "int"],
                    [name |-> <<"a">>, type |-> "text"]>>],
     [schema |-> <<"a">>, name |-> <<"A", "b">>,
      columns |-> <<[name |-> <<"a">>, type |-> "int"]>>],
     [schema |-> <<"b">>, name |-> <<"a">>,
      columns |-> <<[name |-> <<"a">>, type |-> "int"]>>]}

NoRecord == [schema |-> <<>>, name |-> <<>>, columns |-> <<>>]

NoRow == [id |-> 0, name |-> <<>>]

NoFilters ==
    [include_schema |-> None, exclude_schema |-> None,
     include_table |-> None, exclude_table |-> None]

ScanFilters ==
    {NoFilters,
     [NoFilters EXCEPT !.include_schema = Some(<<<<"A">>>>),
                       !.exclude_table = Some(<<>>)],
     [NoFilters EXCEPT !.include_table = Some(<<<<"a">>, <<"c">>>>),
                       !.exclude_table = Some(<<<<"B">>>>)],
     [NoFilters EXCEPT !.exclude_schema = Some(<<<<"a">>, <<"b">>>>)]}

PiiTypes == {"EMAIL"}

----------------------------------------------------------------------------
(* scan_sources and DbScanner.scan, one step per extractor or store call    *)

\* table_generator has not been called.
IdleGenerator ==
    /\ gpc = "idle"
    /\ gArgs = [source |-> 0, name |-> <<>>, filters |-> NoFilters,
                fold |-> FALSE]
    /\ gSchemata = <<>>
    /\ gSchema = 0
    /\ gTables = <<>>
    /\ yielded = <<>>

IdleScan ==
    /\ spc = "idle"
    /\ ssQueue = <<>>
    /\ ssResult = "none"
    /\ sFilters = NoFilters
    /\ ssNames = None
    /\ sSource = 0
    /\ eState = "none"
    /\ eCount = 0
    /\ eLast = NoRecord
    /\ record = NoRecord
    /\ current_schema = NoRow
    /\ table = NoRow
    /\ index = 0
    /\ counts = [schema |-> 0, table |-> 0, column |-> 0]
    /\ sOutcome = "none"
    /\ dbAtStart = db
    /\ tableNew = FALSE
    /\ anyPassed = FALSE
    /\ stream = <<>>
    /\ persisted = <<>>

\* The locals of scan_sources and DbScanner.scan go out of scope.
ForgetLocals ==
    /\ ssQueue' = <<>>
    /\ sFilters' = NoFilters
    /\ ssNames' = None
    /\ sSource' = 0
    /\ eState' = "none"
    /\ eLast' = NoRecord
    /\ record' = NoRecord
    /\ current_schema' = NoRow
    /\ table' = NoRow
    /\ index' = 0
    /\ counts' = [schema |-> 0, table |-> 0, column |-> 0]
    /\ sOutcome' = "none"
    /\ dbAtStart' = db
    /\ tableNew' = FALSE
    /\ anyPassed' = FALSE
    /\ stream' = <<>>
    /\ persisted' = <<>>

\* catalog.get_source(source_name) for each name, skipping (and logging) the
\* names that raise NoResultFound.
RECURSIVE GetSources(_)
GetSources(source_names) ==
    IF source_names = <<>> THEN <<>>
    ELSE LET got == One({r \in db["sources"] : r.key[1] = Head(source_names)})
         IN IF got.error = "none"
            THEN <<got.id>> \o GetSources(Tail(source_names))
            ELSE GetSources(Tail(source_names))

\* scan_sources(catalog, source_names, include_schema_regex, ...): resolve the
\* sources to scan.
scan_sources ==
    /\ spc = "idle"
    /\ eCount < MaxRecords
    /\ \E source_names \in SourceNameLists, f \in ScanFilters :
          /\ IF NonEmpty(source_names)
             THEN ssQueue' = GetSources(source_names.list)
             ELSE ssQueue' \in ListsOf({r.id : r \in db["sources"]})
          /\ sFilters' = f
          /\ ssNames' = source_names
    /\ ssResult' = "none"
    /\ sOutcome' = "none"
    /\ spc' = "for_source"
    /\ UNCHANGED <<sessVars, filterVars, jobVars, lineageVars, lookupVars, storeVars, sSource, eState, eCount, eLast, record,
                   current_schema, table, index, counts, dbAtStart, tableNew,
                   anyPassed, stream, persisted, openVars, managedVars, generatorVars>>

\* for source in sources: exhausted; scan_sources returns.
scan_sources_return ==
    /\ spc = "for_source"
    /\ ssQueue = <<>>
    /\ ssResult' = "returned"
    /\ spc' = "idle"
    /\ ForgetLocals
    /\ UNCHANGED <<sessVars, filterVars, jobVars, lineageVars, lookupVars, storeVars, eCount, openVars, managedVars, generatorVars>>

\* scanner = DbScanner(catalog, source, ...); scanner.scan() up to
\* `with closing(self._extractor) as extractor'
scan_enter ==
    /\ spc = "for_source"
    /\ ssQueue # <<>>
    /\ sSource' = Head(ssQueue)
    /\ ssQueue' = Tail(ssQueue)
    /\ sFilters' = [include_schema |-> Compile(sFilters.include_schema),
                    exclude_schema |-> Compile(sFilters.exclude_schema),
                    include_table |-> Compile(sFilters.include_table),
                    exclude_table |-> Compile(sFilters.exclude_table)]
    /\ counts' = [schema |-> 0, table |-> 0, column |-> 0]
    /\ eState' = "open"
    /\ eLast' = NoRecord
    /\ record' = NoRecord
    /\ current_schema' = NoRow
    /\ table' = NoRow
    /\ index' = 0
    /\ sOutcome' = "none"
    /\ dbAtStart' = db
    /\ tableNew' = FALSE
    /\ anyPassed' = FALSE
    /\ stream' = <<>>
    /\ persisted' = <<>>
    /\ spc' = "init"
    /\ UNCHANGED <<sessVars, filterVars, jobVars, lineageVars, lookupVars, storeVars, ssResult, ssNames, eCount, openVars, managedVars, generatorVars>>

\* Leaving the `with closing(extractor)' block without closing the extractor
\* unless the block completed.
leave_without_close(outcome) ==
    /\ eState' = IF outcome = "ok" THEN "closed" ELSE eState
    /\ sOutcome' = outcome
    /\ spc' = "scanned"

\* Leaving the `with closing(extractor)' block, normally (outcome "ok") or by
\* an exception: extractor.close() runs, then scan returns or raises.
leave(outcome) ==
    /\ eState' = "closed"
    /\ sOutcome' = outcome
    /\ spc' = "scanned"

\* extractor.init(...) returns
extractor_init ==
    /\ spc = "init"
    /\ spc' = "first"
    /\ UNCHANGED <<sessVars, filterVars, jobVars, lineageVars, lookupVars, storeVars, ssQueue, ssResult, sFilters, ssNames, sSource, eState,
                   eCount, eLast, record, current_schema, table, index, counts,
                   sOutcome, dbAtStart, tableNew, anyPassed, stream, persisted, openVars, managedVars, generatorVars>>

\* extractor.init(...) or extractor.extract() raises (connection, auth, ...)
extractor_raise ==
    /\ spc \in {"init", "first", "next"}
    /\ leave("ExtractError")
    /\ UNCHANGED <<sessVars, filterVars, jobVars, lineageVars, lookupVars, storeVars, ssQueue, ssResult, sFilters, ssNames, sSource, eCount,
                   eLast, record, current_schema, table, index, counts,
                   dbAtStart, tableNew, anyPassed, stream, persisted, jpc, job_ids, latest,
          lpc, lin_job_ids, lineages, lookup, openVars, managedVars, generatorVars>>

\* A _filter_rows whose suspended generator is resumed before the next one
\* is created: the record it extracts after a yield is tested by no one.
extract_record_resumed ==
    /\ spc \in {"first", "next"}
    /\ eCount < MaxRecords
    /\ eCount' = eCount + 1
    /\ \E rec \in Records :
          /\ eLast' = rec
          /\ stream' = Append(stream, rec)
          /\ IF Yielded(rec, sFilters) /\ ~(spc = "next" /\ eLast = record)
             THEN /\ record' = rec
                  /\ anyPassed' = TRUE
                  /\ spc' = IF spc = "first" THEN "first_schema" ELSE "loop"
             ELSE UNCHANGED <<record, anyPassed, spc>>
    /\ UNCHANGED <<sessVars, filterVars, jobVars, lineageVars, lookupVars, storeVars, ssQueue, ssResult, sFilters, ssNames, sSource, eState,
                   current_schema, table, index, counts, sOutcome, dbAtStart,
                   tableNew, persisted, openVars, managedVars, generatorVars>>

\* _filter_rows: extractor.extract() returns a record; it is yielded to scan
\* when both filters pass and skipped otherwise.
extract_record ==
    /\ spc \in {"first", "next"}
    /\ eCount < MaxRecords
    /\ eCount' = eCount + 1
    /\ \E rec \in Records :
          /\ eLast' = rec
          /\ stream' = Append(stream, rec)
          /\ IF Yielded(rec, sFilters)
             THEN /\ record' = rec
                  /\ anyPassed' = TRUE
                  /\ spc' = IF spc = "first" THEN "first_schema" ELSE "loop"
             ELSE UNCHANGED <<record, anyPassed, spc>>
    /\ UNCHANGED <<sessVars, filterVars, jobVars, lineageVars, lookupVars, storeVars, ssQueue, ssResult, sFilters, ssNames, sSource, eState,
                   current_schema, table, index, counts, sOutcome, dbAtStart,
                   tableNew, persisted, openVars, managedVars, generatorVars>>

\* _filter_rows: extractor.extract() returns None.  The first next() lets
\* StopIteration escape from scan; the later ones end the loop.
extract_end ==
    /\ spc \in {"first", "next"}
    /\ eLast' = NoRecord
    /\ IF spc = "first"
       THEN /\ leave("StopIteration")
            /\ UNCHANGED record
       ELSE /\ leave("ok")
            /\ record' = NoRecord
    /\ UNCHANGED <<sessVars, filterVars, jobVars, lineageVars, lookupVars, storeVars, ssQueue, ssResult, sFilters, ssNames, sSource, eCount,
                   current_schema, table, index, counts, dbAtStart, tableNew,
                   anyPassed, stream, persisted, openVars, managedVars, generatorVars>>

\* A scan that opens a schema once, before the loop, and keeps it when a
\* later record names another schema.
scan_add_schema_no_reopen ==
    /\ \/ spc = "first_schema"
       \/ spc = "loop" /\ record.schema # current_schema.name
    /\ LET c == IF spc = "first_schema"
                THEN _create("schemata", <<sSource, record.schema>>, NoExtra,
                             db, nextId)
                ELSE [db |-> db, nextId |-> nextId, id |-> current_schema.id,
                      error |-> "none", created |-> FALSE]
       IN /\ db' = c.db
          /\ nextId' = c.nextId
          /\ IF c.error = "none"
             THEN /\ current_schema' = [id |-> c.id, name |-> record.schema]
                  /\ counts' = [counts EXCEPT !.schema = @ + 1]
                  /\ spc' = IF spc = "first_schema" THEN "loop" ELSE "add_table"
                  /\ UNCHANGED <<eState, sOutcome>>
             ELSE /\ leave(c.error)
                  /\ UNCHANGED <<current_schema, counts>>
    /\ UNCHANGED <<sessVars, filterVars, jobVars, lineageVars, lookupVars, ssQueue, ssResult, sFilters, ssNames, sSource,
                   eCount, eLast, record,
                   table, index, dbAtStart, tableNew, anyPassed, stream, persisted, openVars, managedVars, generatorVars>>

\* current_schema = self._catalog.add_schema(record.schema, self._source);
\* schema_count += 1 -- before the loop (first) and inside it when the
\* record's schema differs from current_schema.name
scan_add_schema ==
    /\ \/ spc = "first_schema"
       \/ spc = "loop" /\ record.schema # current_schema.name
    /\ LET c == _create("schemata", <<sSource, record.schema>>, NoExtra,
                        db, nextId)
       IN /\ db' = c.db
          /\ nextId' = c.nextId
          /\ IF c.error = "none"
             THEN /\ current_schema' = [id |-> c.id, name |-> record.schema]
                  /\ counts' = [counts EXCEPT !.schema = @ + 1]
                  /\ spc' = IF spc = "first_schema" THEN "loop" ELSE "add_table"
                  /\ UNCHANGED <<eState, sOutcome>>
             ELSE /\ leave(c.error)
                  /\ UNCHANGED <<current_schema, counts>>
    /\ UNCHANGED <<sessVars, filterVars, jobVars, lineageVars, lookupVars, ssQueue, ssResult, sFilters, ssNames, sSource,
                   eCount, eLast, record,
                   table, index, dbAtStart, tableNew, anyPassed, stream, persisted, openVars, managedVars, generatorVars>>

\* table = self._catalog.add_table(record.name, current_schema);
\* table_count += 1; index = 0
scan_add_table ==
    /\ \/ spc = "add_table"
       \/ spc = "loop" /\ record.schema = current_schema.name
    /\ LET c == _create("tables", <<current_schema.id, record.name>>, NoExtra,
                        db, nextId)
       IN /\ db' = c.db
          /\ nextId' = c.nextId
          /\ IF c.error = "none"
             THEN /\ table' = [id |-> c.id, name |-> record.name]
                  /\ tableNew' = c.created
                  /\ counts' = [counts EXCEPT !.table = @ + 1]
                  /\ index' = 0
                  /\ spc' = IF record.columns = <<>> THEN "next" ELSE "add_column"
                  /\ UNCHANGED <<eState, sOutcome>>
             ELSE /\ leave(c.error)
                  /\ UNCHANGED <<table, tableNew, counts, index>>
    /\ persisted' = IF spc' = "next" THEN Append(persisted, record)
                    ELSE persisted
    /\ UNCHANGED <<sessVars, filterVars, jobVars, lineageVars, lookupVars, ssQueue, ssResult, sFilters, ssNames, sSource,
                   eCount, eLast, record,
                   current_schema, dbAtStart, anyPassed, stream, openVars, managedVars, generatorVars>>

\* for c in record.columns: self._catalog.add_column(c.name, c.type, index,
\* table); index += 1; column_count += 1
scan_add_column ==
    /\ spc = "add_column"
    /\ LET col == record.columns[index + 1]
           c == _create("columns", <<table.id, col.name>>,
                        [data_type |-> col.type, sort_order |-> index,
                         pii_type |-> "null", pii_plugin |-> "null"],
                        db, nextId)
       IN /\ db' = c.db
          /\ nextId' = c.nextId
          /\ IF c.error = "none"
             THEN /\ index' = index + 1
                  /\ counts' = [counts EXCEPT !.column = @ + 1]
                  /\ spc' = IF index + 1 = Len(record.columns)
                            THEN "next" ELSE "add_column"
                  /\ UNCHANGED <<eState, sOutcome>>
             ELSE /\ leave(c.error)
                  /\ UNCHANGED <<index, counts>>
    /\ persisted' = IF spc' = "next" THEN Append(persisted, record)
                    ELSE persisted
    /\ UNCHANGED <<sessVars, filterVars, jobVars, lineageVars, lookupVars, ssQueue, ssResult, sFilters, ssNames, sSource,
                   eCount, eLast, record,
                   current_schema, table, dbAtStart, tableNew, anyPassed, stream, openVars, managedVars, generatorVars>>

\* A catalog add_* call raises an error of the store (connection lost, ...)
store_raise ==
    /\ spc \in {"first_schema", "loop", "add_table", "add_column"}
    /\ leave("StoreError")
    /\ UNCHANGED <<sessVars, filterVars, jobVars, lineageVars, lookupVars, storeVars, ssQueue, ssResult, sFilters, ssNames, sSource, eCount,
                   eLast, record, current_schema, table, index, counts,
                   dbAtStart, tableNew, anyPassed, stream, persisted, jpc, job_ids, latest,
          lpc, lin_job_ids, lineages, lookup, openVars, managedVars, generatorVars>>

\* scan_sources with the except clause left out: the StopIteration of a scan
\* without matches is taken for the end of the scan.
scan_sources_next_swallow ==
    /\ spc = "scanned"
    /\ IF sOutcome \in {"ok", "StopIteration"}
       THEN /\ spc' = "for_source"
            /\ UNCHANGED <<ssResult, ssQueue, sFilters, ssNames, sSource, eState, eLast,
                           record, current_schema, table, index, counts,
                           sOutcome, dbAtStart, tableNew, anyPassed, stream, persisted>>
       ELSE /\ ssResult' = sOutcome
            /\ spc' = "idle"
            /\ ForgetLocals
    /\ UNCHANGED <<sessVars, filterVars, jobVars, lineageVars, lookupVars, storeVars, eCount, openVars, managedVars, generatorVars>>

\* try: scanner.scan() / except StopIteration: raise NoMatchesError -- the
\* scan returned (next source), raised StopIteration (NoMatchesError leaves
\* scan_sources) or raised another exception (it leaves scan_sources).
scan_sources_next ==
    /\ spc = "scanned"
    /\ IF sOutcome = "ok"
       THEN /\ spc' = "for_source"
            /\ UNCHANGED <<ssResult, ssQueue, sFilters, ssNames, sSource, eState, eLast,
                           record, current_schema, table, index, counts,
                           sOutcome, dbAtStart, tableNew, anyPassed, stream, persisted>>
       ELSE /\ ssResult' = IF sOutcome = "StopIteration"
                           THEN "NoMatchesError" ELSE sOutcome
            /\ spc' = "idle"
            /\ ForgetLocals
    /\ UNCHANGED <<sessVars, filterVars, jobVars, lineageVars, lookupVars, storeVars, eCount, openVars, managedVars, generatorVars>>

\* An update keyed by the column's name instead of its surrogate id.
set_column_pii_type_by_name ==
    /\ spc = "idle"
    /\ \E column \in db["columns"], pii_type \in PiiTypes :
          db' = [db EXCEPT !["columns"] =
                   {IF r.key[2] = column.key[2]
                    THEN [r EXCEPT !.extra.pii_type = pii_type,
                                   !.extra.pii_plugin = "plugin"]
                    ELSE r : r \in @}]
    /\ dbAtStart' = db'
    /\ UNCHANGED <<sessVars, filterVars, jobVars, lineageVars, lookupVars, nextId, spc, ssQueue, ssResult,
                   sFilters, ssNames, sSource, eState, eCount, eLast, record,
                   current_schema, table, index, counts, sOutcome, tableNew,
                   anyPassed, stream, persisted, openVars, managedVars, generatorVars>>

\* Catalog.set_column_pii_type(column, pii_type, pii_plugin), between scans
set_column_pii_type ==
    /\ spc = "idle"
    /\ \E column \in db["columns"], pii_type \in PiiTypes :
          db' = [db EXCEPT !["columns"] =
                   {IF r.id = column.id
                    THEN [r EXCEPT !.extra.pii_type = pii_type,
                                   !.extra.pii_plugin = "plugin"]
                    ELSE r : r \in @}]
    /\ dbAtStart' = db'
    /\ UNCHANGED <<sessVars, filterVars, jobVars, lineageVars, lookupVars, nextId, spc, ssQueue, ssResult,
                   sFilters, ssNames, sSource, eState, eCount, eLast, record,
                   current_schema, table, index, counts, sOutcome, tableNew,
                   anyPassed, stream, persisted, openVars, managedVars, generatorVars>>

\* The query without its order_by clause: the columns in any order.
get_columns_for_table_unordered(tbl, column_names) ==
    LET cols == {c \in db["columns"] :
                    /\ c.key[1] = tbl.id
                    /\ (column_names.given =>
                           c.key[2] \in Range(column_names.list))}
    IN ListsOf(cols)

\* Catalog.get_columns_for_table(table, column_names): the lists the query
\* can return -- the columns of the table with the table's source, schema and
\* table names, ordered by sort_order (rows of equal sort_order in any order).
\* The newer_than filter is left at its default, None.
get_columns_for_table(tbl, column_names) ==
    LET t == CHOOSE r \in db["tables"] : r.id = tbl.id
        sc == CHOOSE r \in db["schemata"] : r.id = t.key[1]
        so == CHOOSE r \in db["sources"] : r.id = sc.key[1]
        cols == {c \in db["columns"] :
                    \E t2 \in db["tables"], sc2 \in db["schemata"],
                       so2 \in db["sources"] :
                        /\ c.key[1] = t2.id
                        /\ t2.key[1] = sc2.id
                        /\ sc2.key[1] = so2.id
                        /\ so2.key[1] = so.key[1]
                        /\ sc2.key[2] = sc.key[2]
                        /\ t2.key[2] = t.key[2]
                        /\ (column_names.given =>
                               c.key[2] \in Range(column_names.list))}
    IN {l \in ListsOf(cols) :
           \A i, j \in 1..Len(l) :
               i < j => l[i].extra.sort_order <= l[j].extra.sort_order}

InitScan ==
    /\ db = [k \in Kinds |-> IF k = "sources" THEN SourceRows ELSE {}]
    /\ nextId = [k \in Kinds |->
                   IF k = "sources" THEN Cardinality(SourceRows) + 1 ELSE 1]
    /\ pc = [s \in Sessions |-> "idle"]
    /\ op = [s \in Sessions |->
               [kind |-> "sources", key |-> <<>>, extra |-> NoExtra]]
    /\ pending = [s \in Sessions |-> {}]
    /\ result = [s \in Sessions |-> 0]
    /\ error = [s \in Sessions |-> "none"]
    /\ seen = [s \in Sessions |-> {}]
    /\ calls = 0
    /\ IdleFilter
    /\ IdleScan
    /\ IdleJobs
    /\ IdleOpen
    /\ IdleManaged
    /\ IdleGenerator

NextScan ==
    \/ scan_sources
    \/ scan_sources_return
    \/ scan_enter
    \/ extractor_init
    \/ extractor_raise
    \/ extract_record
    \/ extract_end
    \/ scan_add_schema
    \/ scan_add_table
    \/ scan_add_column
    \/ store_raise
    \/ scan_sources_next
    \/ set_column_pii_type

SpecScan == InitScan /\ [][NextScan]_vars

----------------------------------------------------------------------------
(* Claims about the scan                                                    *)

\* The name matches at least one pattern of the list.
NameMatchesAny(name, list) == \E k \in 1..Len(list) : search(list[k], name)

\* The name passes an include / exclude pair: it matches some include
\* pattern (or there is none) and no exclude pattern.
PassesFilter(name, include, exclude) ==
    /\ (NonEmpty(include) => NameMatchesAny(name, include.list))
    /\ ~(exclude.given /\ NameMatchesAny(name, exclude.list))

PassesBoth(rec, f) ==
    /\ PassesFilter(rec.schema, f.include_schema, f.exclude_schema)
    /\ PassesFilter(rec.name, f.include_table, f.exclude_table)

\* Every column of the record has a row under the scan's current table.
AllColumnsStored ==
    \A i \in 1..Len(record.columns) :
        \E c \in db["columns"] : c.key = <<table.id, record.columns[i].name>>

\* C5: during DbScanner.scan a record returned by the extractor is handed on
\* to be persisted if and only if its schema name passes the schema filter and
\* its table name passes the table filter; a record failing either filter
\* changes no row and no count; rows and counts change only while a record
\* that passed both filters is being persisted; and every column of a
\* persisted record is stored whatever its name (columns are not filtered).
C5_FilterGatesRows ==
    /\ [](spc \in {"first_schema", "loop", "add_table", "add_column"}
            => record # NoRecord /\ PassesBoth(record, sFilters))
    /\ []((spc = "next" /\ record # NoRecord) => AllColumnsStored)
    /\ [][/\ (eCount' = eCount + 1) =>
               /\ PassesBoth(eLast', sFilters) <=>
                     (record' = eLast' /\ spc' \in {"first_schema", "loop"})
               /\ ~PassesBoth(eLast', sFilters) =>
                     (record' = record /\ spc' = spc)
               /\ db' = db /\ counts' = counts
          /\ ((db' # db \/ counts' # counts) /\ spc \notin {"idle", "for_source", "scanned"})
               => spc \in {"first_schema", "loop", "add_table", "add_column"}
       ]_vars

\* A record whose schema passes the schema filter and whose table matches an
\* include and an exclude pattern of the table filter has just been skipped.
C5_Witness ==
    /\ spc \in {"first", "next"}
    /\ eLast # NoRecord
    /\ PassesFilter(eLast.schema, sFilters.include_schema, sFilters.exclude_schema)
    /\ NonEmpty(sFilters.include_table)
    /\ NameMatchesAny(eLast.name, sFilters.include_table.list)
    /\ ~PassesBoth(eLast, sFilters)
    /\ record # eLast

\* C6: when the scan has persisted a record whose table was not in the catalog
\* before, the stored column ci of the table has sort_order i for every
\* position i of the record's column list, and every list
\* get_columns_for_table can return has the columns in that order.
C6_SortOrder ==
    (spc = "next" /\ record # NoRecord /\ tableNew) =>
        \A l \in get_columns_for_table(table, None) :
            /\ Len(l) = Len(record.columns)
            /\ \A i \in 1..Len(l) :
                  /\ l[i].key = <<table.id, record.columns[i].name>>
                  /\ l[i].extra.sort_order = i - 1
                  /\ l[i].extra.data_type = record.columns[i].type

\* A new table with two columns has been persisted while the store already
\* held columns of another table (so the ids of the new columns do not start
\* at 1).
C6_Witness ==
    /\ spc = "next" /\ record # NoRecord /\ tableNew
    /\ Len(record.columns) = 2
    /\ \E c \in db["columns"] : c.key[1] # table.id
    /\ \E c \in db["columns"] :
          c.key[1] = table.id /\ c.id # c.extra.sort_order + 1

\* C7: a scan whose stream ends without any record having passed the filters
\* (the empty stream included) ends by StopIteration with the store as it was
\* when the scan began, and scan_sources then raises NoMatchesError instead of
\* returning.
C7_NoMatches ==
    /\ []((spc = "scanned" /\ ~anyPassed /\ sOutcome \in {"ok", "StopIteration"})
            => (sOutcome = "StopIteration" /\ db = dbAtStart))
    /\ [][(spc = "scanned" /\ sOutcome = "StopIteration")
            => (ssResult' = "NoMatchesError" /\ spc' = "idle" /\ db' = db)]_vars

\* A scan with filters has ended without matches after the extractor returned
\* records, none of which was stored.
C7_Witness ==
    /\ spc = "scanned"
    /\ sOutcome = "StopIteration"
    /\ ~anyPassed
    /\ eCount > 0
    /\ db["schemata"] = {}
    /\ sFilters # NoFilters

\* C8: on every exit path of DbScanner.scan (normal completion, the
\* no-matches exit, an exception of extractor.init or extractor.extract, an
\* exception of a catalog add_* call) the extractor has been closed when scan
\* returns or raises.
C8_ExtractorClosed ==
    spc = "scanned" => eState = "closed"

\* scan has been left by an exception of an add_* call, after rows were
\* written.
C8_Witness ==
    /\ spc = "scanned"
    /\ sOutcome = "StoreError"
    /\ db # dbAtStart
    /\ eState = "closed"

\* C9: every Schema, Table and Column row present when DbScanner.scan began
\* is present, with all its fields as they were, at every later point of the
\* scan and when it ends.
C9_ScanAdditive ==
    spc # "idle" =>
        \A kind \in {"schemata", "tables", "columns"} :
            dbAtStart[kind] \subseteq db[kind]

\* A rescan has persisted a record of a table stored before the scan: one of
\* the table's columns carries a PII tag and is listed by the record at
\* another position and with another type than stored, and another stored
\* table is not reported by this scan at all.
C9_Witness ==
    /\ spc = "next" /\ record # NoRecord /\ ~tableNew
    /\ \E c \in dbAtStart["columns"], i \in 1..Len(record.columns) :
          /\ c.key = <<table.id, record.columns[i].name>>
          /\ c.extra.pii_type # "null"
          /\ c.extra.sort_order # i - 1
          /\ c.extra.data_type # record.columns[i].type
          /\ c \in db["columns"]
    /\ \E t \in dbAtStart["tables"] : t.id # table.id
    /\ counts.table = 1

----------------------------------------------------------------------------
(* Specification of the concurrent sessions on one store                    *)

InitStore ==
    IdleStore /\ IdleFilter /\ IdleScan /\ IdleJobs /\ IdleOpen /\ IdleManaged
        /\ IdleGenerator

NextStore == StoreStep

SpecStore == InitStore /\ [][NextStore]_vars

----------------------------------------------------------------------------
(* Claims about the get-or-create store                                     *)

\* A natural key is complete when none of its foreign keys is NULL.
NonNullKey(kind, key) == \A i \in ForeignKeys(kind) : key[i] # Null

RowsWithKey(kind, key) == {r \in db[kind] : r.key = key}

\* Two sessions have both returned from the same operation on the same
\* complete natural key.
BothReturned(s1, s2) ==
    /\ s1 # s2
    /\ pc[s1] = "done" /\ pc[s2] = "done"
    /\ op[s1].kind = op[s2].kind
    /\ op[s1].kind \in {"schemata", "tables", "columns", "column_lineage"}
    /\ op[s1].key = op[s2].key
    /\ NonNullKey(op[s1].kind, op[s1].key)

\* C1: when two sessions have both returned from add_schema, add_table,
\* add_column or add_column_lineage on the same natural key, whatever the
\* interleaving of their insert / commit / rollback / re-select steps, exactly
\* one row with that key exists, both calls returned its id, and neither
\* raised an error.
C1_ConcurrentUpsert ==
    \A s1, s2 \in Sessions :
        BothReturned(s1, s2) =>
            /\ Cardinality(RowsWithKey(op[s1].kind, op[s1].key)) = 1
            /\ result[s1] = result[s2]
            /\ result[s1] \in {r.id : r \in RowsWithKey(op[s1].kind, op[s1].key)}
            /\ error[s1] = "none" /\ error[s2] = "none"

\* Both calls began when no row with the key existed (they raced to create
\* it) and both have returned.
C1_Witness ==
    \E s1, s2 \in Sessions :
        /\ BothReturned(s1, s2)
        /\ seen[s1] = {} /\ seen[s2] = {}
        /\ result[s1] = result[s2] /\ result[s1] # 0

\* C2: in every reachable state the store holds at most one Source per name,
\* one Schema per (source_id, name), one Table per (schema_id, name), one
\* Column per (table_id, name) and one ColumnLineage per (source_id,
\* target_id, job_execution_id), for keys whose parents are not NULL.
C2_UniqueNaturalKeys ==
    \A kind \in {"sources", "schemata", "tables", "columns", "column_lineage"} :
        \A r1, r2 \in db[kind] :
            (r1.key = r2.key /\ NonNullKey(kind, r1.key)) => r1 = r2

\* An insert of an already stored lineage edge has been rejected by the store
\* and rolled back.
C2_Witness ==
    \E s \in Sessions :
        /\ pc[s] = "reselect"
        /\ op[s].kind = "column_lineage"
        /\ RowsWithKey(op[s].kind, op[s].key) # {}

\* C3: a get-or-create call (add_schema, add_table, add_column, add_job,
\* add_column_lineage) on a natural key that was already stored when the call
\* began returns the stored row without error and leaves exactly that row,
\* with its non-key fields as first stored, whatever values the call supplied.
C3_IdempotentNoOverwrite ==
    \A s \in Sessions :
        (/\ pc[s] = "done"
         /\ op[s].kind \in {"schemata", "tables", "columns", "jobs",
                            "column_lineage"}
         /\ NonNullKey(op[s].kind, op[s].key)
         /\ seen[s] # {})
        => /\ error[s] = "none"
           /\ RowsWithKey(op[s].kind, op[s].key) = seen[s]
           /\ seen[s] = {r \in seen[s] : r.id = result[s]}
           /\ Cardinality(seen[s]) = 1

\* A second add_column on a stored key, supplying a different data_type and
\* sort_order, has returned.
C3_Witness ==
    \E s \in Sessions :
        /\ pc[s] = "done"
        /\ op[s].kind = "columns"
        /\ NonNullKey(op[s].kind, op[s].key)
        /\ seen[s] # {}
        /\ \A r \in seen[s] : r.extra # op[s].extra /\ r.id = result[s]

----------------------------------------------------------------------------
(* Specification of the pattern filter over bounded inputs                  *)

InitFilter ==
    IdleStore /\ InitFilterArgs /\ IdleScan /\ IdleJobs /\ IdleOpen /\ IdleManaged
        /\ IdleGenerator

NextFilter == filter_objects_call

SpecFilter == InitFilter /\ [][NextFilter]_vars

\* The object's name matches at least one pattern of the list.
MatchesAny(m, list) == \E k \in 1..Len(list) : search(list[k], m.name)

\* C4: filter_objects returns exactly the objects whose name matches at least
\* one include pattern (all objects when the include list is None or empty)
\* minus the objects whose name matches at least one exclude pattern, each
\* once; with no patterns at all the input list is returned unchanged.
C4_FilterObjects ==
    fpc = "done" =>
        /\ Range(fOut) =
              {m \in Range(fIn.objects) :
                  /\ (NonEmpty(fIn.include) => MatchesAny(m, fIn.include.list))
                  /\ ~(fIn.exclude.given /\ MatchesAny(m, fIn.exclude.list))}
        /\ Len(fOut) = Cardinality(Range(fOut))
        /\ (~NonEmpty(fIn.include) /\ ~NonEmpty(fIn.exclude)) => fOut = fIn.objects

\* The filter has run on a list in which one object matches an include and an
\* exclude pattern (and is dropped) and another matches only an include
\* pattern (and is kept).
C4_Witness ==
    /\ fpc = "done"
    /\ NonEmpty(fIn.include) /\ NonEmpty(fIn.exclude)
    /\ \E m \in Range(fIn.objects) :
          /\ MatchesAny(m, fIn.include.list)
          /\ MatchesAny(m, fIn.exclude.list)
          /\ m \notin Range(fOut)
    /\ fOut # <<>>

----------------------------------------------------------------------------
(* Jobs and their executions                                                *)

\* The jobs of the store: two jobs of source 1.
JobRows ==
    {[id |-> 1, key |-> <<1, <<"a">>>>, extra |-> [context |-> "x"]],
     [id |-> 2, key |-> <<1, <<"b">>>>, extra |-> [context |-> "x"]]}

\* started_at values (the caller passes a datetime, never None).
Times == 1..MaxTime

\* The job_ids arguments: lists of ids of the jobs and of one id without job,
\* with repetitions.
JobIdLists ==
    UNION {[1..n -> 1..(Cardinality(JobRows) + 1)] : n \in 0..MaxJobIds}

\* Catalog.add_job_execution(job, started_at, ended_at, status): job_executions
\* has no unique constraint, so the INSERT always commits.
add_job_execution ==
    /\ Cardinality(db["job_executions"]) < MaxExecutions
    /\ \E job \in db["jobs"], started_at \in Times :
          LET c == _create("job_executions", <<job.id>>,
                           [started_at |-> started_at], db, nextId)
          IN /\ db' = c.db
             /\ nextId' = c.nextId
    /\ jpc' = "none"
    /\ job_ids' = <<>>
    /\ latest' = <<>>
    /\ lpc' = "none"
    /\ lin_job_ids' = None
    /\ lineages' = {}
    /\ UNCHANGED <<sessVars, filterVars, scanVars, lookupVars, openVars, managedVars, generatorVars>>

\* The query with order_by=JobExecution.started_at ascending.
_get_latest_job_executions_asc(rows, ids) ==
    LET filtered == {e \in rows : e.key[1] \in Range(ids)}
        partitions == {e.key[1] : e \in filtered}
        numberings(j) ==
            {l \in ListsOf({e \in filtered : e.key[1] = j}) :
                \A a, b \in 1..Len(l) :
                    a < b => l[a].extra.started_at <= l[b].extra.started_at}
        first == {f \in [partitions -> filtered] :
                     \A j \in partitions : \E l \in numberings(j) : f[j] = l[1]}
    IN {{f[j].id : j \in partitions} : f \in first}

\* Catalog._get_latest_job_executions(session, job_ids): the sets of ids the
\* query can yield. The rows with job_id IN job_ids are numbered within each
\* job_id partition by started_at descending (rows that tie are numbered in
\* either order) and the rows numbered 1 are selected.
_get_latest_job_executions(rows, ids) ==
    LET filtered == {e \in rows : e.key[1] \in Range(ids)}
        partitions == {e.key[1] : e \in filtered}
        numberings(j) ==
            {l \in ListsOf({e \in filtered : e.key[1] = j}) :
                \A a, b \in 1..Len(l) :
                    a < b => l[a].extra.started_at >= l[b].extra.started_at}
        first == {f \in [partitions -> filtered] :
                     \A j \in partitions : \E l \in numberings(j) : f[j] = l[1]}
    IN {{f[j].id : j \in partitions} : f \in first}

\* Catalog.get_latest_job_executions(job_ids): the lists .all() can return,
\* the JobExecution rows whose id is IN the subquery, in some order.
get_latest_job_executions(rows, ids) ==
    UNION {ListsOf({e \in rows : e.id \in sub}) :
              sub \in _get_latest_job_executions(rows, ids)}

\* (The query leaves the store as it is, so one call is made per state of the
\* store: the call starts from a state without result.)
get_latest_job_executions_call ==
    /\ jpc = "none"
    /\ \E ids \in JobIdLists :
          /\ job_ids' = ids
          /\ latest' \in get_latest_job_executions(db["job_executions"], ids)
    /\ jpc' = "done"
    /\ UNCHANGED <<storeVars, sessVars, filterVars, scanVars, lineageVars, lookupVars, openVars, managedVars, generatorVars>>

InitJobs ==
    /\ db = [k \in Kinds |->
               CASE k = "sources" -> SourceRows
                 [] k = "jobs" -> JobRows
                 [] OTHER -> {}]
    /\ nextId = [k \in Kinds |->
                   CASE k = "sources" -> Cardinality(SourceRows) + 1
                     [] k = "jobs" -> Cardinality(JobRows) + 1
                     [] OTHER -> 1]
    /\ pc = [s \in Sessions |-> "idle"]
    /\ op = [s \in Sessions |->
               [kind |-> "sources", key |-> <<>>, extra |-> NoExtra]]
    /\ pending = [s \in Sessions |-> {}]
    /\ result = [s \in Sessions |-> 0]
    /\ error = [s \in Sessions |-> "none"]
    /\ seen = [s \in Sessions |-> {}]
    /\ calls = 0
    /\ IdleFilter
    /\ IdleScan
    /\ IdleJobs
    /\ IdleOpen
    /\ IdleManaged
    /\ IdleGenerator

NextJobs ==
    \/ add_job_execution
    \/ get_latest_job_executions_call

SpecJobs == InitJobs /\ [][NextJobs]_vars

\* The executions of job j in the store.
ExecutionsOf(j) == {e \in db["job_executions"] : e.key[1] = j}

\* C10: get_latest_job_executions(job_ids) returns exactly one JobExecution
\* for each listed job that has at least one execution, that execution has
\* the maximum started_at among the executions of the job, and it returns no
\* execution of a job that is not listed.
C10_LatestExecutions ==
    jpc = "done" =>
        LET listed == {j \in Range(job_ids) : ExecutionsOf(j) # {}}
        IN /\ Range(latest) \subseteq db["job_executions"]
           /\ Len(latest) = Cardinality(listed)
           /\ \A i \in 1..Len(latest) : latest[i].key[1] \in Range(job_ids)
           /\ \A j \in listed :
                 \E i \in 1..Len(latest) :
                    /\ latest[i].key[1] = j
                    /\ \A e \in ExecutionsOf(j) :
                          e.extra.started_at <= latest[i].extra.started_at

\* The call listed a job with an earlier-inserted later execution and a
\* later-inserted earlier one, a job id twice, and left out a job that has
\* an execution.
C10_Witness ==
    /\ jpc = "done"
    /\ Len(latest) = 1
    /\ Len(job_ids) = 2 /\ job_ids[1] = job_ids[2]
    /\ \E e1, e2 \in ExecutionsOf(latest[1].key[1]) :
          /\ e1.id < e2.id
          /\ e1.extra.started_at > e2.extra.started_at
          /\ latest[1] = e1
    /\ \E e \in db["job_executions"] : e.key[1] \notin Range(job_ids)

----------------------------------------------------------------------------
(* Column lineage scoped by jobs                                            *)

\* One schema, one table and its two columns under source 1.
LineageColumnRows ==
    {[id |-> 1, key |-> <<1, <<"a">>>>,
      extra |-> [data_type |-> "int", sort_order |-> 0,
                 pii_type |-> "null", pii_plugin |-> "null"]],
     [id |-> 2, key |-> <<1, <<"b">>>>,
      extra |-> [data_type |-> "int", sort_order |-> 1,
                 pii_type |-> "null", pii_plugin |-> "null"]]}

\* The job_ids arguments of get_column_lineages: absent, empty, one job, both
\* jobs, and an id without job next to a job.
LineageJobIds ==
    {None, Some(<<>>), Some(<<1>>), Some(<<2>>), Some(<<1, 2>>),
     Some(<<3, 1>>)}

\* Catalog.add_column_lineage(source, target, job_execution_id, context) for
\* the edge from column 1 to column 2 asserted by a stored execution.
add_column_lineage_edge ==
    /\ \E e \in db["job_executions"] :
          LET c == _create("column_lineage", <<1, 2, e.id>>,
                           [context |-> "x"], db, nextId)
          IN /\ c.created
             /\ db' = c.db
             /\ nextId' = c.nextId
    /\ lpc' = "none"
    /\ lin_job_ids' = None
    /\ lineages' = {}
    /\ UNCHANGED <<sessVars, filterVars, scanVars, jobVars, lookupVars, openVars, managedVars, generatorVars>>

\* A query that keeps the edges of every execution of the listed jobs.
get_column_lineages_any_execution(rows, executions, ids) ==
    IF NonEmpty(ids)
    THEN {{l \in rows :
             \E e \in executions :
                e.id = l.key[3] /\ e.key[1] \in Range(ids.list)}}
    ELSE {rows}

\* Catalog.get_column_lineages(job_ids): the sets of rows query.all() can
\* return. With a non-empty job_ids the edges are filtered by
\* job_execution_id IN _get_latest_job_executions(job_ids).
get_column_lineages(rows, executions, ids) ==
    IF NonEmpty(ids)
    THEN {{l \in rows : l.key[3] \in sub} :
             sub \in _get_latest_job_executions(executions, ids.list)}
    ELSE {rows}

\* (One call is made per state of the store, as the query leaves it as it
\* is.)
get_column_lineages_call ==
    /\ lpc = "none"
    /\ \E ids \in LineageJobIds :
          /\ lin_job_ids' = ids
          /\ lineages' \in get_column_lineages(db["column_lineage"],
                                               db["job_executions"], ids)
    /\ lpc' = "done"
    /\ UNCHANGED <<storeVars, sessVars, filterVars, scanVars, jobVars, lookupVars, openVars, managedVars, generatorVars>>

InitLineage ==
    /\ db = [k \in Kinds |->
               CASE k = "sources" -> SourceRows
                 [] k = "schemata" ->
                      {[id |-> 1, key |-> <<1, <<"a">>>>, extra |-> NoExtra]}
                 [] k = "tables" ->
                      {[id |-> 1, key |-> <<1, <<"a">>>>, extra |-> NoExtra]}
                 [] k = "columns" -> LineageColumnRows
                 [] k = "jobs" -> JobRows
                 [] OTHER -> {}]
    /\ nextId = [k \in Kinds |-> Cardinality(db[k]) + 1]
    /\ pc = [s \in Sessions |-> "idle"]
    /\ op = [s \in Sessions |->
               [kind |-> "sources", key |-> <<>>, extra |-> NoExtra]]
    /\ pending = [s \in Sessions |-> {}]
    /\ result = [s \in Sessions |-> 0]
    /\ error = [s \in Sessions |-> "none"]
    /\ seen = [s \in Sessions |-> {}]
    /\ calls = 0
    /\ IdleFilter
    /\ IdleScan
    /\ IdleJobs
    /\ IdleOpen
    /\ IdleManaged
    /\ IdleGenerator

NextLineage ==
    \/ add_job_execution
    \/ add_column_lineage_edge
    \/ get_column_lineages_call

SpecLineage == InitLineage /\ [][NextLineage]_vars

\* The executions of job j with the maximum started_at.
LatestOf(j) ==
    {e \in ExecutionsOf(j) :
        \A f \in ExecutionsOf(j) : f.extra.started_at <= e.extra.started_at}

\* C11: get_column_lineages(job_ids) with a non-empty job_ids returns exactly
\* the edges whose job_execution_id is the latest execution (one with the
\* maximum started_at) of one of the listed jobs, the union over the listed
\* jobs, and no edge asserted only by an earlier execution; with job_ids
\* absent it returns every stored edge.
C11_LineageOfLatest ==
    lpc = "done" =>
        /\ NonEmpty(lin_job_ids) =>
              LET listed == {j \in Range(lin_job_ids.list) :
                                ExecutionsOf(j) # {}}
              IN \E f \in [listed -> db["job_executions"]] :
                    /\ \A j \in listed : f[j] \in LatestOf(j)
                    /\ lineages = {l \in db["column_lineage"] :
                                      \E j \in listed : l.key[3] = f[j].id}
        /\ ~lin_job_ids.given => lineages = db["column_lineage"]

\* Both jobs were listed; one of them has an earlier and a later execution
\* that each assert an edge, the other has an execution asserting an edge:
\* the later execution's edge and the other job's edge are returned, the
\* earlier execution's edge is not.
C11_Witness ==
    /\ lpc = "done"
    /\ lin_job_ids = Some(<<1, 2>>)
    /\ Cardinality(lineages) = 2
    /\ \E e1, e2 \in ExecutionsOf(1), l1, l2 \in db["column_lineage"] :
          /\ e1.extra.started_at < e2.extra.started_at
          /\ l1.key[3] = e1.id /\ l2.key[3] = e2.id
          /\ l1 \notin lineages /\ l2 \in lineages
    /\ \E l \in lineages : l.key[3] \in {e.id : e \in ExecutionsOf(2)}

----------------------------------------------------------------------------
(* Claims about registering a source twice                                  *)

\* A session has returned from add_source on a name that was stored when the
\* call began.
DuplicateSource(s) ==
    /\ pc[s] = "done"
    /\ op[s].kind = "sources"
    /\ seen[s] # {}

\* C12: add_source with a name that is already used by a stored Source is
\* rejected: the call raises the uniqueness conflict (IntegrityError) to its
\* caller and the stored Source is left unchanged.
C12_DuplicateSourceRejected ==
    \A s \in Sessions :
        DuplicateSource(s) =>
            /\ error[s] = "IntegrityError"
            /\ RowsWithKey("sources", op[s].key) = seen[s]

\* add_source on a stored name with the stored attributes has returned the
\* stored row without raising.
C12_Witness ==
    \E s \in Sessions :
        /\ DuplicateSource(s)
        /\ \A r \in seen[s] : r.extra = op[s].extra /\ result[s] = r.id
        /\ error[s] = "none"

\* C13: add_source with the name of a stored Source and a different
\* source_type or different connection attributes raises no error and returns
\* the stored row, whose attributes stay as stored.
C13_DifferingAttributesDropped ==
    \A s \in Sessions :
        (DuplicateSource(s) /\ \A r \in seen[s] : r.extra # op[s].extra) =>
            /\ error[s] = "none"
            /\ result[s] \in {r.id : r \in seen[s]}
            /\ RowsWithKey("sources", op[s].key) = seen[s]

\* add_source on a stored name with another uri has raised NoResultFound and
\* left the stored row as it was.
C13_Witness ==
    \E s \in Sessions :
        /\ DuplicateSource(s)
        /\ \A r \in seen[s] : r.extra # op[s].extra
        /\ error[s] = "NoResultFound"
        /\ result[s] = 0
        /\ RowsWithKey("sources", op[s].key) = seen[s]

----------------------------------------------------------------------------
(* Claims about scanning a stored table again                               *)

\* The scan has persisted a record of a table that was stored before.
Rescanned == spc = "next" /\ record # NoRecord /\ ~tableNew

\* C14: when a table that is already in the catalog is scanned again, every
\* column the later scan reports ends with sort_order equal to its 0-based
\* position in the later scan's column list.
C14_RescanReassignsSortOrder ==
    Rescanned =>
        \A i \in 1..Len(record.columns) :
            \A c \in db["columns"] :
                c.key = <<table.id, record.columns[i].name>>
                    => c.extra.sort_order = i - 1

\* A rescan has persisted a record that lists a stored column at another
\* position than before: the column still has the sort_order of the earlier
\* scan.
C14_Witness ==
    /\ Rescanned
    /\ \E i \in 1..Len(record.columns) :
          \E c \in db["columns"] :
             /\ c.key = <<table.id, record.columns[i].name>>
             /\ c.extra.sort_order # i - 1
             /\ c \in dbAtStart["columns"]

----------------------------------------------------------------------------
(* Point lookups and searches on a catalog                                  *)

\* Two registered sources.
CatalogSources ==
    {[id |-> 1, key |-> <<<<"s">>>>,
      extra |-> [source_type |-> "sqlite", uri |-> "u1"]],
     [id |-> 2, key |-> <<<<"t">>>>,
      extra |-> [source_type |-> "sqlite", uri |-> "u2"]]}

\* The names of the stored schemata, tables and columns, and the names the
\* lookups ask for (one of them differs from a stored name in case only).
CatalogNames == {<<"a">>, <<"A", "b">>}

LookupNames == CatalogNames \cup {<<"a", "b">>}

LookupSourceNames == {<<"s">>, <<"t">>, <<"u">>}

\* The rows of schemata, tables and columns.
CatalogRows == Cardinality(db["schemata"]) + Cardinality(db["tables"])
                   + Cardinality(db["columns"])

NoLookup == [op |-> "none", names |-> <<>>, id |-> 0, error |-> "none",
             message |-> ""]

\* The parent kind of a kind.
ParentKind(kind) ==
    CASE kind = "schemata" -> "sources"
      [] kind = "tables" -> "schemata"
      [] kind = "columns" -> "tables"

\* Catalog.add_schema / add_table / add_column with a stored parent, or with
\* None as the parent.
catalog_add(kind) ==
    /\ CatalogRows < MaxRows
    /\ \E parent \in {r.id : r \in db[ParentKind(kind)]} \cup {Null},
          name \in CatalogNames :
          LET extra == IF kind = "columns"
                       THEN [data_type |-> "int", sort_order |-> 0,
                             pii_type |-> "null", pii_plugin |-> "null"]
                       ELSE NoExtra
              c == _create(kind, <<parent, name>>, extra, db, nextId)
          IN /\ db' = c.db
             /\ nextId' = c.nextId
    /\ lookup' = NoLookup
    /\ UNCHANGED <<sessVars, filterVars, scanVars, jobVars, lineageVars, openVars, managedVars, generatorVars>>

catalog_add_schema == catalog_add("schemata")

catalog_add_table == catalog_add("tables")

catalog_add_column == catalog_add("columns")

\* query(CatSource).filter(CatSource.name == source_name)
get_source_rows(source_name) ==
    {so \in db["sources"] : so.key[1] = source_name}

\* A lookup of a schema by its own name alone.
get_schema_rows_any_source(source_name, schema_name) ==
    {sc \in db["schemata"] : sc.key[2] = schema_name}

\* query(CatSchema).join(CatSchema.source).filter(...)
get_schema_rows(source_name, schema_name) ==
    {sc \in db["schemata"] :
        /\ sc.key[2] = schema_name
        /\ \E so \in get_source_rows(source_name) : so.id = sc.key[1]}

\* query(CatTable).join(CatTable.schema).join(CatSchema.source).filter(...)
get_table_rows(source_name, schema_name, table_name) ==
    {t \in db["tables"] :
        /\ t.key[2] = table_name
        /\ \E sc \in get_schema_rows(source_name, schema_name) :
              sc.id = t.key[1]}

\* query(CatColumn).join(CatColumn.table).join(...).filter(...)
get_column_rows(source_name, schema_name, table_name, column_name) ==
    {c \in db["columns"] :
        /\ c.key[2] = column_name
        /\ \E t \in get_table_rows(source_name, schema_name, table_name) :
              t.id = c.key[1]}

\* The lookup returns .one() of its query, or raises what .one() raises.
\* (The lookups leave the store as it is, so one lookup is made per state of
\* the store: each lookup action starts from a state without lookup result.)
Looked(op_name, names, rows) ==
    [op |-> op_name, names |-> names,
     id |-> One(rows).id, error |-> One(rows).error, message |-> ""]

get_source ==
    /\ lookup.op = "none"
    /\ \E n \in LookupSourceNames :
          lookup' = Looked("get_source", <<n>>, get_source_rows(n))
    /\ UNCHANGED <<storeVars, sessVars, filterVars, scanVars, jobVars,
                   lineageVars, openVars, managedVars, generatorVars>>

get_schema ==
    /\ lookup.op = "none"
    /\ \E so \in LookupSourceNames, n \in LookupNames :
          lookup' = Looked("get_schema", <<so, n>>, get_schema_rows(so, n))
    /\ UNCHANGED <<storeVars, sessVars, filterVars, scanVars, jobVars,
                   lineageVars, openVars, managedVars, generatorVars>>

get_table ==
    /\ lookup.op = "none"
    /\ \E so \in LookupSourceNames, sc \in CatalogNames, n \in LookupNames :
          lookup' = Looked("get_table", <<so, sc, n>>,
                            get_table_rows(so, sc, n))
    /\ UNCHANGED <<storeVars, sessVars, filterVars, scanVars, jobVars,
                   lineageVars, openVars, managedVars, generatorVars>>

get_column ==
    /\ lookup.op = "none"
    /\ \E so \in {<<"s">>}, sc \in CatalogNames, t \in CatalogNames,
          n \in LookupNames :
          lookup' = Looked("get_column", <<so, sc, t, n>>,
                            get_column_rows(so, sc, t, n))
    /\ UNCHANGED <<storeVars, sessVars, filterVars, scanVars, jobVars,
                   lineageVars, openVars, managedVars, generatorVars>>

\* column.like(pattern): "%" matches any run of characters, "_" any one
\* character; whether letters are compared with their case folded depends on
\* the store (SQLite folds ASCII case, PostgreSQL does not).
RECURSIVE like(_, _, _)
like(pattern, name, fold) ==
    IF pattern = <<>> THEN name = <<>>
    ELSE IF Head(pattern) = "%"
         THEN \E k \in 0..Len(name) :
                 like(Tail(pattern), SubSeq(name, k + 1, Len(name)), fold)
         ELSE /\ name # <<>>
              /\ \/ Head(pattern) = "_"
                 \/ Head(pattern) = Head(name)
                 \/ fold /\ Lower(Head(pattern)) = Lower(Head(name))
              /\ like(Tail(pattern), Tail(name), fold)

\* Catalog.search_tables(table_like, schema_like, source_like): the rows of
\* the query; the joins are made only for the patterns that are given.
search_tables(table_like, schema_like, source_like, fold) ==
    {t \in db["tables"] :
        /\ (source_like.given \/ schema_like.given) =>
              \E sc \in db["schemata"] :
                 /\ sc.id = t.key[1]
                 /\ source_like.given =>
                       \E so \in db["sources"] :
                          /\ so.id = sc.key[1]
                          /\ like(source_like.list, so.key[1], fold)
                 /\ schema_like.given => like(schema_like.list, sc.key[2], fold)
        /\ like(table_like, t.key[2], fold)}

\* Catalog.search_table(table_like, schema_like, source_like): what the call
\* can return or raise.
search_table(table_like, schema_like, source_like, fold) ==
    LET tables == search_tables(table_like, schema_like, source_like, fold)
    IN IF tables = {}
       THEN {[id |-> 0, error |-> "RuntimeError",
              message |-> "table not found"]}
       ELSE IF Cardinality(tables) > 1
            THEN {[id |-> 0, error |-> "RuntimeError",
                   message |-> "Ambiguous table name. Multiple matches found"]}
            ELSE {[id |-> t.id, error |-> "none", message |-> ""] :
                     t \in tables}

\* The patterns of the searches
TablePatterns == {<<"a", "%">>, <<"_">>, <<"A", "b">>}

SchemaPatterns == {None, Some(<<"a">>)}

SourcePatterns == {None, Some(<<"s">>)}

search_table_call ==
    /\ lookup.op = "none"
    /\ \E table_like \in TablePatterns, schema_like \in SchemaPatterns,
          source_like \in SourcePatterns, fold \in BOOLEAN :
          \E got \in search_table(table_like, schema_like, source_like, fold) :
             lookup' = [op |-> "search_table",
                        names |-> <<table_like, schema_like, source_like, fold>>,
                        id |-> got.id, error |-> got.error,
                        message |-> got.message]
    /\ UNCHANGED <<storeVars, sessVars, filterVars, scanVars, jobVars,
                   lineageVars, openVars, managedVars, generatorVars>>

InitCatalog ==
    /\ db = [k \in Kinds |->
               IF k = "sources" THEN CatalogSources ELSE {}]
    /\ nextId = [k \in Kinds |-> Cardinality(db[k]) + 1]
    /\ pc = [s \in Sessions |-> "idle"]
    /\ op = [s \in Sessions |->
               [kind |-> "sources", key |-> <<>>, extra |-> NoExtra]]
    /\ pending = [s \in Sessions |-> {}]
    /\ result = [s \in Sessions |-> 0]
    /\ error = [s \in Sessions |-> "none"]
    /\ seen = [s \in Sessions |-> {}]
    /\ calls = 0
    /\ IdleFilter
    /\ IdleScan
    /\ IdleJobs
    /\ IdleOpen
    /\ IdleManaged
    /\ IdleGenerator

NextCatalog ==
    \/ catalog_add_schema
    \/ catalog_add_table
    \/ catalog_add_column
    \/ get_source
    \/ get_schema
    \/ get_table
    \/ get_column
    \/ search_table_call

SpecCatalog == InitCatalog /\ [][NextCatalog]_vars

\* The kind of entity a point lookup asks for.
LookupKind(op_name) ==
    CASE op_name = "get_source" -> "sources"
      [] op_name = "get_schema" -> "schemata"
      [] op_name = "get_table" -> "tables"
      [] op_name = "get_column" -> "columns"

\* The names of a stored row and of its ancestors, from the source down; no
\* chain when an ancestor is missing.
RECURSIVE NameChains(_, _)
NameChains(kind, r) ==
    IF kind = "sources" THEN {<<r.key[1]>>}
    ELSE {Append(chain, r.key[2]) :
             chain \in UNION {NameChains(ParentKind(kind), p) :
                                 p \in {q \in db[ParentKind(kind)] :
                                           q.id = r.key[1]}}}

SearchMatches ==
    search_tables(lookup.names[1], lookup.names[2], lookup.names[3],
                  lookup.names[4])

\* C16: search_table returns the matching table when exactly one table
\* matches the LIKE patterns, fails with a not-found error when none matches,
\* and fails with an ambiguity error when more than one matches, an error of
\* another kind than the not-found error (here RuntimeError), so that the
\* caller can tell the two apart.
C16_SearchTableErrors ==
    lookup.op = "search_table" =>
        /\ Cardinality(SearchMatches) = 1 =>
              (lookup.error = "none" /\ lookup.id \in {t.id : t \in SearchMatches})
        /\ SearchMatches = {} => lookup.error = "RuntimeError"
        /\ Cardinality(SearchMatches) > 1 =>
              lookup.error \notin {"none", "RuntimeError"}

\* A search that matches two tables has raised a RuntimeError, as a search
\* without match does, with a message of its own.
C16_Witness ==
    /\ lookup.op = "search_table"
    /\ Cardinality(SearchMatches) > 1
    /\ lookup.error = "RuntimeError"
    /\ lookup.message = "Ambiguous table name. Multiple matches found"

----------------------------------------------------------------------------
(* scan_sources over two registered sources                                 *)

InitScanSources ==
    /\ db = [k \in Kinds |-> IF k = "sources" THEN CatalogSources ELSE {}]
    /\ nextId = [k \in Kinds |-> Cardinality(db[k]) + 1]
    /\ pc = [s \in Sessions |-> "idle"]
    /\ op = [s \in Sessions |->
               [kind |-> "sources", key |-> <<>>, extra |-> NoExtra]]
    /\ pending = [s \in Sessions |-> {}]
    /\ result = [s \in Sessions |-> 0]
    /\ error = [s \in Sessions |-> "none"]
    /\ seen = [s \in Sessions |-> {}]
    /\ calls = 0
    /\ IdleFilter
    /\ IdleScan
    /\ IdleJobs
    /\ IdleOpen
    /\ IdleManaged
    /\ IdleGenerator

SpecScanSources == InitScanSources /\ [][NextScan]_vars

\* C17: scan_sources scans every requested source (every registered source
\* when no names are given): when the scan of one source ends, with success
\* or without matches, and sources remain, scan_sources goes on with the
\* remaining sources.
C17_EverySourceScanned ==
    [][(spc = "scanned" /\ sOutcome \in {"ok", "StopIteration"}
          /\ ssQueue # <<>>)
         => (spc' = "for_source" /\ ssQueue' = ssQueue)]_vars

\* The scan of the first of two sources has ended without matches while the
\* second source is still to be scanned.
C17_Witness ==
    /\ spc = "scanned"
    /\ sOutcome = "StopIteration"
    /\ ssQueue # <<>>
    /\ sSource # Head(ssQueue)

----------------------------------------------------------------------------
(* Claims about a get-or-create call without parent                         *)

\* The call of session s is add_schema, add_table or add_column with None as
\* the parent.
MissingParent(s) ==
    /\ op[s].kind \in {"schemata", "tables", "columns"}
    /\ op[s].key # <<>>
    /\ op[s].key[1] = Null

\* C18: add_schema with source None, add_table with schema None and
\* add_column with table None fail with a validation error before any insert
\* or query is issued to the store, and create no row.
C18_MissingParentRejected ==
    \A s \in Sessions :
        MissingParent(s) =>
            /\ pc[s] \notin {"commit", "rollback", "reselect"}
            /\ pending[s] = {}
            /\ pc[s] = "done" => (error[s] = "ValidationError" /\ result[s] = 0)

\* add_schema with source None has returned a new row whose source_id is
\* NULL, without error.
C18_Witness ==
    \E s \in Sessions :
        /\ MissingParent(s)
        /\ op[s].kind = "schemata"
        /\ pc[s] = "done"
        /\ error[s] = "none"
        /\ \E r \in db["schemata"] : r.id = result[s] /\ r.key[1] = Null

----------------------------------------------------------------------------
(* Opening the catalog                                                      *)

\* Connection parameters: which of them are given (not None).
ConnectionParams ==
    [host : BOOLEAN, user : BOOLEAN, password : BOOLEAN, database : BOOLEAN,
     path : BOOLEAN]

\* The contents of app_dir/catalog.yml: a complete network-store
\* specification, a file-store path, or neither.
ConfigFiles ==
    {[host |-> TRUE, user |-> TRUE, password |-> TRUE, database |-> TRUE,
      path |-> FALSE],
     [host |-> FALSE, user |-> FALSE, password |-> FALSE, database |-> FALSE,
      path |-> TRUE],
     [host |-> TRUE, user |-> FALSE, password |-> FALSE, database |-> FALSE,
      path |-> FALSE]}

\* catalog_connection(secret, path, host, port, user, password, database)
catalog_connection(params) ==
    IF params.host /\ params.user /\ params.password /\ params.database
    THEN [catalog |-> "PGCatalog", error |-> "none"]
    ELSE IF params.path
         THEN [catalog |-> "SqliteCatalog", error |-> "none"]
         ELSE [catalog |-> "none", error |-> "AttributeError"]

\* open_catalog(app_dir, secret, path, host, port, user, password, database):
\* the catalog it returns after init_db, or the exception it raises, and
\* where the connection came from.
open_catalog(params, config_exists, config) ==
    LET first == catalog_connection(params)
        got == IF first.error = "AttributeError"
               THEN IF config_exists
                    THEN [c |-> catalog_connection(config), from |-> "catalog.yml"]
                    ELSE [c |-> catalog_connection(
                                    [host |-> FALSE, user |-> FALSE,
                                     password |-> FALSE, database |-> FALSE,
                                     path |-> TRUE]),
                          from |-> "default"]
               ELSE [c |-> first, from |-> "parameters"]
    IN [catalog |-> got.c.catalog, error |-> got.c.error, from |-> got.from,
        initialized |-> got.c.error = "none"]

open_catalog_call ==
    /\ ~openArgs.called
    /\ opened' = open_catalog(openArgs.params, openArgs.config_exists,
                              openArgs.config)
    /\ openArgs' = [openArgs EXCEPT !.called = TRUE]
    /\ UNCHANGED <<storeVars, sessVars, filterVars, scanVars, jobVars,
                   lineageVars, lookupVars, managedVars, generatorVars>>

InitOpen ==
    /\ IdleStore
    /\ IdleFilter
    /\ IdleScan
    /\ IdleJobs
    /\ IdleManaged
    /\ IdleGenerator
    /\ openArgs \in [called : {FALSE}, params : ConnectionParams,
                     config_exists : BOOLEAN, config : ConfigFiles]
    /\ opened = [catalog |-> "none", error |-> "none", from |-> "none",
                 initialized |-> FALSE]

NextOpen == open_catalog_call

SpecOpen == InitOpen /\ [][NextOpen]_vars

\* Neither a complete network-store specification nor a file-store path is
\* among the parameters of the call.
NothingGiven ==
    /\ ~(openArgs.params.host /\ openArgs.params.user
           /\ openArgs.params.password /\ openArgs.params.database)
    /\ ~openArgs.params.path

\* C19: open_catalog called with neither a complete network-store
\* specification nor a file-store path fails with the configuration error
\* (AttributeError): no catalog is opened and no fallback is attempted.
C19_OpenCatalogConfigError ==
    (openArgs.called /\ NothingGiven) =>
        /\ opened.error = "AttributeError"
        /\ opened.catalog = "none"
        /\ opened.from = "parameters"
        /\ ~opened.initialized

\* open_catalog was called with a host only and without catalog.yml: it
\* has opened and initialised the default file store.
C19_Witness ==
    /\ openArgs.called
    /\ NothingGiven
    /\ openArgs.params.host
    /\ ~openArgs.config_exists
    /\ opened = [catalog |-> "SqliteCatalog", error |-> "none",
                 from |-> "default", initialized |-> TRUE]

----------------------------------------------------------------------------
(* Claims about unregistered source names                                   *)

\* scan_sources was given a list of names of which one is not registered.
UnregisteredNameGiven ==
    /\ NonEmpty(ssNames)
    /\ \E k \in 1..Len(ssNames.list) :
          \A so \in db["sources"] : so.key[1] # ssNames.list[k]

\* C20: when scan_sources is given a source name that is not registered, the
\* NoResultFound of the lookup propagates to the caller of scan_sources: the
\* call does not go on to scan the other sources with the name skipped.
C20_NotFoundPropagates ==
    UnregisteredNameGiven => (spc = "idle" /\ ssResult = "NoResultFound")

\* scan_sources was given an unregistered name and a registered one, and has
\* scanned the registered source and written its rows.
C20_Witness ==
    /\ UnregisteredNameGiven
    /\ spc = "scanned"
    /\ sOutcome = "ok"
    /\ db # dbAtStart

----------------------------------------------------------------------------
(* Claims about the identity of a job                                       *)

\* A session has returned from add_job given a source.
JobAdded(s) ==
    /\ pc[s] = "done"
    /\ op[s].kind = "jobs"
    /\ NonNullKey("jobs", op[s].key)

\* C21: job identity is (source_id, name): every add_job call given a source
\* returns without error the single Job row with the call's name attached to
\* the call's source, so that the same name under two sources gives two rows
\* and the same name under the same source gives one row.
C21_JobIdentity ==
    \A s \in Sessions :
        JobAdded(s) =>
            /\ error[s] = "none"
            /\ Cardinality(RowsWithKey("jobs", op[s].key)) = 1
            /\ result[s] \in {r.id : r \in RowsWithKey("jobs", op[s].key)}

\* add_job with a name stored under another source has raised NoResultFound
\* and no Job row is attached to the source it was given.
C21_Witness ==
    \E s \in Sessions :
        /\ JobAdded(s)
        /\ \E r \in db["jobs"] :
              /\ r.key[2] = op[s].key[2]
              /\ r.key[1] # Null /\ r.key[1] # op[s].key[1]
        /\ error[s] = "NoResultFound"
        /\ RowsWithKey("jobs", op[s].key) = {}

----------------------------------------------------------------------------
(* Catalog.managed_session                                                  *)

\* The frame of an active block: how the block was entered ("owner": it
\* assigned _current_session, "reuse": it found one) and the value yielded.
Push(t, kind) ==
    frames' = [frames EXCEPT ![t] =
                  Append(@, [kind |-> kind, session |-> _current_session])]

Pop(t) == frames' = [frames EXCEPT ![t] = SubSeq(@, 1, Len(@) - 1)]

\* with catalog.managed_session: the test `if self._current_session is not
\* None' of the generator.
managed_session_enter(t) ==
    /\ tpc[t] = "run"
    /\ Len(frames[t]) < MaxDepth
    /\ entries < MaxEntries
    /\ entries' = entries + 1
    /\ tpc' = [tpc EXCEPT ![t] = IF _current_session # "none"
                                 THEN "yield_reuse" ELSE "acquire"]
    /\ UNCHANGED <<_current_session, frames, registry, opError, exitPath,
                   removes>>
    /\ UNCHANGED <<storeVars, sessVars, filterVars, scanVars, jobVars, lineageVars, lookupVars, openVars, generatorVars>>

\* yield self._current_session (the block found a current session)
managed_session_yield_reuse(t) ==
    /\ tpc[t] = "yield_reuse"
    /\ Push(t, "reuse")
    /\ tpc' = [tpc EXCEPT ![t] = "run"]
    /\ UNCHANGED <<_current_session, registry, opError, exitPath, entries,
                   removes>>
    /\ UNCHANGED <<storeVars, sessVars, filterVars, scanVars, jobVars, lineageVars, lookupVars, openVars, generatorVars>>

\* self._current_session = self.get_scoped_session()
managed_session_acquire(t) ==
    /\ tpc[t] = "acquire"
    /\ _current_session' = "scoped"
    /\ tpc' = [tpc EXCEPT ![t] = "yield_owner"]
    /\ UNCHANGED <<frames, registry, opError, exitPath, entries, removes>>
    /\ UNCHANGED <<storeVars, sessVars, filterVars, scanVars, jobVars, lineageVars, lookupVars, openVars, generatorVars>>

\* yield self._current_session (inside try)
managed_session_yield_owner(t) ==
    /\ tpc[t] = "yield_owner"
    /\ Push(t, "owner")
    /\ tpc' = [tpc EXCEPT ![t] = "run"]
    /\ UNCHANGED <<_current_session, registry, opError, exitPath, entries,
                   removes>>
    /\ UNCHANGED <<storeVars, sessVars, filterVars, scanVars, jobVars, lineageVars, lookupVars, openVars, generatorVars>>

\* A catalog operation inside a block (Catalog._create: session =
\* self._current_session; session.add(created)): AttributeError on None,
\* else the scoped_session gives the thread its own session.
catalog_operation(t) ==
    /\ tpc[t] = "run"
    /\ frames[t] # <<>>
    /\ IF _current_session = "none"
       THEN /\ opError' = [opError EXCEPT ![t] = "AttributeError"]
            /\ UNCHANGED registry
       ELSE /\ opError' = [opError EXCEPT ![t] = "none"]
            /\ registry' = [registry EXCEPT ![t] = TRUE]
    /\ UNCHANGED <<_current_session, frames, tpc, exitPath, entries, removes>>
    /\ UNCHANGED <<storeVars, sessVars, filterVars, scanVars, jobVars, lineageVars, lookupVars, openVars, generatorVars>>

\* A managed_session without try/finally: an exception in the block leaves
\* the generator at its yield.
managed_session_leave_no_finally(t, how) ==
    /\ tpc[t] = "run"
    /\ frames[t] # <<>>
    /\ exitPath' = [exitPath EXCEPT ![t] = how]
    /\ IF frames[t][Len(frames[t])].kind = "reuse" \/ how = "exception"
       THEN /\ Pop(t)
            /\ UNCHANGED <<tpc, registry, removes>>
       ELSE /\ tpc' = [tpc EXCEPT ![t] = "reset"]
            /\ IF _current_session # "none"
               THEN /\ registry' = [registry EXCEPT ![t] = FALSE]
                    /\ removes' = removes + 1
               ELSE UNCHANGED <<registry, removes>>
            /\ UNCHANGED frames
    /\ UNCHANGED <<_current_session, opError, entries>>
    /\ UNCHANGED <<storeVars, sessVars, filterVars, scanVars, jobVars, lineageVars, lookupVars, openVars, generatorVars>>

\* The block ends, by return or by exception.  A block that found a current
\* session: `return' after the yield (an exception passes through).  The
\* block that assigned it: finally: if self._current_session is not None:
\* self._current_session.remove()
managed_session_leave(t, how) ==
    /\ tpc[t] = "run"
    /\ frames[t] # <<>>
    /\ exitPath' = [exitPath EXCEPT ![t] = how]
    /\ IF frames[t][Len(frames[t])].kind = "reuse"
       THEN /\ Pop(t)
            /\ UNCHANGED <<tpc, registry, removes>>
       ELSE /\ tpc' = [tpc EXCEPT ![t] = "reset"]
            /\ IF _current_session # "none"
               THEN /\ registry' = [registry EXCEPT ![t] = FALSE]
                    /\ removes' = removes + 1
               ELSE UNCHANGED <<registry, removes>>
            /\ UNCHANGED frames
    /\ UNCHANGED <<_current_session, opError, entries>>
    /\ UNCHANGED <<storeVars, sessVars, filterVars, scanVars, jobVars, lineageVars, lookupVars, openVars, generatorVars>>

\* finally: self._current_session = None
managed_session_reset(t) ==
    /\ tpc[t] = "reset"
    /\ _current_session' = "none"
    /\ Pop(t)
    /\ tpc' = [tpc EXCEPT ![t] = "run"]
    /\ UNCHANGED <<registry, opError, exitPath, entries, removes>>
    /\ UNCHANGED <<storeVars, sessVars, filterVars, scanVars, jobVars, lineageVars, lookupVars, openVars, generatorVars>>

ExitPaths == {"return", "exception"}

InitManaged ==
    /\ IdleStore
    /\ IdleFilter
    /\ IdleScan
    /\ IdleJobs
    /\ IdleOpen
    /\ IdleManaged
    /\ IdleGenerator

NextManaged ==
    \E t \in Threads :
        \/ managed_session_enter(t)
        \/ managed_session_yield_reuse(t)
        \/ managed_session_acquire(t)
        \/ managed_session_yield_owner(t)
        \/ catalog_operation(t)
        \/ \E how \in ExitPaths : managed_session_leave(t, how)
        \/ managed_session_reset(t)

SpecManaged == InitManaged /\ [][NextManaged]_vars

----------------------------------------------------------------------------
(* Claims about managed_session                                             *)

\* Thread t is the only thread that has used managed_session.
Alone(t) ==
    \A u \in Threads \ {t} :
        frames[u] = <<>> /\ tpc[u] = "run" /\ exitPath[u] = "none"

\* Thread t enters a block in this step (the block's yield).
Yields(t) == Len(frames'[t]) = Len(frames[t]) + 1

\* Thread t leaves a block it entered while it was inside another block.
LeavesInner(t) ==
    Len(frames[t]) > 1 /\ Len(frames'[t]) = Len(frames[t]) - 1

\* Thread t starts to leave its outermost block (the finally clause).
StartsLeavingOuter(t) ==
    Len(frames[t]) = 1 /\ tpc[t] = "run" /\ tpc'[t] = "reset"

\* Thread t has left its outermost block.
LeftOuter(t) == frames[t] # <<>> /\ frames'[t] = <<>>

\* C22: managed_session used from one thread: entering it inside an active
\* block yields the session of that block and acquires nothing; leaving the
\* inner block releases nothing and keeps the current session; leaving the
\* outermost block, by return or by exception, releases the session (remove)
\* and resets the current session to none; an entry outside any block
\* acquires a session again.
C22_ManagedSessionNesting ==
    [][\A t \in Threads :
          Alone(t) =>
            /\ (Yields(t) /\ frames[t] # <<>>) =>
                  /\ frames'[t][Len(frames'[t])].session = frames[t][1].session
                  /\ frames'[t][Len(frames'[t])].session = "scoped"
                  /\ frames'[t][Len(frames'[t])].kind = "reuse"
                  /\ UNCHANGED <<_current_session, removes>>
            /\ LeavesInner(t) =>
                  /\ _current_session' = "scoped"
                  /\ UNCHANGED <<_current_session, registry, removes>>
            /\ StartsLeavingOuter(t) =>
                  /\ removes' = removes + 1
                  /\ ~registry'[t]
            /\ LeftOuter(t) =>
                  /\ tpc[t] = "reset"
                  /\ _current_session' = "none"
                  /\ ~registry'[t]
            /\ (frames'[t] = <<>> /\ tpc'[t] = "run") =>
                  _current_session' = "none"
            /\ (Yields(t) /\ frames[t] = <<>>) =>
                  /\ frames'[t][1] = [kind |-> "owner", session |-> "scoped"]
                  /\ _current_session' = "scoped"
      ]_vars

\* One thread has entered a block, entered a nested block, left both, the
\* outer one by an exception, and has entered a block again, which acquired
\* a session.
C22_Witness ==
    \E t \in Threads :
        /\ Alone(t)
        /\ entries = 3
        /\ removes = 1
        /\ exitPath[t] = "exception"
        /\ tpc[t] = "run"
        /\ Len(frames[t]) = 1
        /\ frames[t][1].kind = "owner"
        /\ _current_session = "scoped"

\* C29: two threads each inside a managed_session block of the same Catalog:
\* every catalog operation a thread performs inside its block finds a
\* current session.
C29_SessionPerThread ==
    \A t \in Threads : opError[t] = "none"

\* A thread inside its block has run a catalog operation after the other
\* thread left its own block, and the operation found no current session.
C29_Witness ==
    \E t, u \in Threads :
        /\ t # u
        /\ frames[t] # <<>>
        /\ opError[t] = "AttributeError"
        /\ exitPath[u] # "none" /\ frames[u] = <<>>
        /\ _current_session = "none"

----------------------------------------------------------------------------
(* Claims about the PII tag of a column                                     *)

\* The store changes between two scans: the step of set_column_pii_type.
TagStep == spc = "idle" /\ spc' = "idle" /\ db' # db

----------------------------------------------------------------------------
(* Claims about the stream of a scan                                        *)

\* DbScanner.scan has returned normally.
ScanCompleted == spc = "scanned" /\ sOutcome = "ok"

\* The Schema rows of the scanned source with the given name.
SchemaRows(name) == {r \in db["schemata"] : r.key = <<sSource, name>>}

\* C24: when DbScanner.scan completes, whatever the order of the schemas in
\* the stream, the source has exactly one Schema row for each schema name of a
\* retained record, the table of every retained record is stored under the
\* Schema row with the record's schema name, and every table row the scan
\* added is the table of a retained record under that record's schema.
C24_NonContiguousSchemas ==
    ScanCompleted =>
        /\ \A i \in 1..Len(persisted) :
              /\ Cardinality(SchemaRows(persisted[i].schema)) = 1
              /\ \E sc \in SchemaRows(persisted[i].schema) :
                    \E t \in db["tables"] : t.key = <<sc.id, persisted[i].name>>
        /\ \A t \in db["tables"] \ dbAtStart["tables"] :
              \E i \in 1..Len(persisted) :
                 \E sc \in SchemaRows(persisted[i].schema) :
                    t.key = <<sc.id, persisted[i].name>>

\* A scan has completed on a stream whose retained records name the schemas
\* A, B, A in this order; the source has two Schema rows.
C24_Witness ==
    /\ ScanCompleted
    /\ Len(persisted) = 3
    /\ persisted[1].schema = persisted[3].schema
    /\ persisted[1].schema # persisted[2].schema
    /\ persisted[1].name # persisted[3].name
    /\ Cardinality({r \in db["schemata"] : r.key[1] = sSource}) = 2
    /\ Cardinality(db["tables"]) = 3

\* The records of the stream that pass both filters of the scan, in order.
PassesScanFilters(rec) == PassesBoth(rec, sFilters)

RetainedOfStream == SelectSeq(stream, PassesScanFilters)

\* The scan is between its first extract() and its end.
Scanning ==
    spc \in {"first", "first_schema", "loop", "add_table", "add_column", "next"}

\* The steps of scan_sources and scan alone: no caller tags a column between
\* two scans.
NextStream ==
    \/ scan_sources
    \/ scan_sources_return
    \/ scan_enter
    \/ extractor_init
    \/ extractor_raise
    \/ extract_record
    \/ extract_end
    \/ scan_add_schema
    \/ scan_add_table
    \/ scan_add_column
    \/ store_raise
    \/ scan_sources_next

\* The scan, a sequential loop, takes its next step eventually.
SpecStream == InitScan /\ [][NextStream]_vars /\ WF_vars(NextStream)

\* C25: in DbScanner.scan, which takes each record from a fresh _filter_rows
\* generator, the records persisted are at every point the records of the
\* stream that pass both filters, each once and in stream order (all of them
\* whenever the scan asks for the next record and when it completes, all but
\* the one in hand in between); when the extractor returns its end-of-stream
\* value the scan ends at once and extracts nothing more; and every scan that
\* was started ends.
C25_StreamOrder ==
    /\ []((spc = "next" \/ ScanCompleted) => persisted = RetainedOfStream)
    /\ [](Scanning =>
            \/ persisted = RetainedOfStream
            \/ /\ RetainedOfStream = Append(persisted, record)
               /\ spc \in {"first_schema", "loop", "add_table", "add_column"})
    /\ [][/\ (spc \in {"first", "next"} /\ eLast' = NoRecord) => spc' = "scanned"
          /\ (spc = "scanned" /\ spc' # "init") =>
                (eCount' = eCount /\ (stream' = stream \/ spc' = "idle"))
       ]_vars
    /\ (spc = "init") ~> (spc = "scanned")

\* A scan has completed on a stream in which a record that fails the filters
\* lies between two records that pass: both were persisted, in this order.
C25_Witness ==
    /\ ScanCompleted
    /\ Len(stream) = 3
    /\ PassesScanFilters(stream[1])
    /\ ~PassesScanFilters(stream[2])
    /\ PassesScanFilters(stream[3])
    /\ persisted = <<stream[1], stream[3]>>
    /\ stream[1] # stream[3]

----------------------------------------------------------------------------
(* Claims about the positions of the columns of a table                     *)

\* C26: in every state reached by scans of a source, no two Column rows of
\* the same table have the same sort_order.
C26_DistinctSortOrder ==
    \A c1, c2 \in db["columns"] :
        (c1.key[1] = c2.key[1] /\ c1.extra.sort_order = c2.extra.sort_order)
            => c1 = c2

\* A scan has completed on a table of which one column was stored before the
\* scan; the scan added a column listed before it, and both have sort_order 0.
C26_Witness ==
    /\ ScanCompleted
    /\ \E c1 \in dbAtStart["columns"], c2 \in db["columns"] \ dbAtStart["columns"] :
          /\ c1.key[1] = c2.key[1]
          /\ c1 \in db["columns"]
          /\ c1.extra.sort_order = 0
          /\ c2.extra.sort_order = 0

----------------------------------------------------------------------------
(* Claims relating the two filters                                          *)

\* C27: the scan-time test and the catalog-side filter agree: for every name
\* and every include and exclude pattern list (None, empty or non-empty),
\* _test_regex on the name -- with the lists as passed or as DbScanner.__init__
\* compiles them -- is true if and only if filter_objects returns the object
\* of that name, and on a list of one object filter_objects returns the list
\* itself or the empty list accordingly.
C27_SameFilter ==
    fpc = "done" =>
        /\ \A i \in 1..Len(fIn.objects) :
              /\ _test_regex(fIn.objects[i].name, fIn.include, fIn.exclude)
                    <=> fIn.objects[i] \in Range(fOut)
              /\ _test_regex(fIn.objects[i].name, Compile(fIn.include),
                             Compile(fIn.exclude))
                    <=> fIn.objects[i] \in Range(fOut)
        /\ Len(fIn.objects) = 1 =>
              fOut = IF _test_regex(fIn.objects[1].name, fIn.include, fIn.exclude)
                     THEN fIn.objects ELSE <<>>

\* filter_objects has returned the one object of its list under an empty
\* include list and an exclude list of two patterns that the name does not
\* match.
C27_Witness ==
    /\ fpc = "done"
    /\ Len(fIn.objects) = 1
    /\ fIn.include = Some(<<>>)
    /\ NonEmpty(fIn.exclude) /\ Len(fIn.exclude.list) = 2
    /\ fOut = fIn.objects
    /\ _test_regex(fIn.objects[1].name, fIn.include, fIn.exclude)

----------------------------------------------------------------------------
(* Claims about the counts of a scan                                        *)

\* The total number of columns of a sequence of records.
RECURSIVE ColumnTotal(_)
ColumnTotal(records) ==
    IF records = <<>> THEN 0
    ELSE Len(Head(records).columns) + ColumnTotal(Tail(records))

\* C28: when DbScanner.scan completes, its schema count is the number of
\* distinct schema names among the retained records, its table count the
\* number of retained records and its column count the total number of
\* columns of the retained records.
C28_ScanCounts ==
    ScanCompleted =>
        /\ counts.schema =
              Cardinality({persisted[i].schema : i \in 1..Len(persisted)})
        /\ counts.table = Len(persisted)
        /\ counts.column = ColumnTotal(persisted)

\* A scan has completed on retained records naming the schemas A, B, A: the
\* schema count is 3 for 2 distinct schema names, the table and column counts
\* are those of the records.
C28_Witness ==
    /\ ScanCompleted
    /\ Len(persisted) = 3
    /\ persisted[1].schema = persisted[3].schema
    /\ persisted[1].schema # persisted[2].schema
    /\ counts.schema = 3
    /\ counts.table = 3
    /\ counts.column = ColumnTotal(persisted)

----------------------------------------------------------------------------
(* table_generator                                                          *)

\* Two registered sources; the name of the second is a single underscore.
GenSources ==
    {[id |-> 1, key |-> <<<<"s">>>>,
      extra |-> [source_type |-> "sqlite", uri |-> "u1"]],
     [id |-> 2, key |-> <<<<"_">>>>,
      extra |-> [source_type |-> "sqlite", uri |-> "u2"]]}

\* The schemata a catalog can hold: "a" and "_" under source 1, "a" under
\* source 2.
GenSchemaRows ==
    {[id |-> 1, key |-> <<1, <<"a">>>>, extra |-> NoExtra],
     [id |-> 2, key |-> <<1, <<"_">>>>, extra |-> NoExtra],
     [id |-> 3, key |-> <<2, <<"a">>>>, extra |-> NoExtra]}

\* The tables a catalog can hold.
GenTableRows ==
    {[id |-> 1, key |-> <<1, <<"a">>>>, extra |-> NoExtra],
     [id |-> 2, key |-> <<1, <<"b">>>>, extra |-> NoExtra],
     [id |-> 3, key |-> <<2, <<"a">>>>, extra |-> NoExtra],
     [id |-> 4, key |-> <<3, <<"b">>>>, extra |-> NoExtra]}

\* The pattern lists passed to table_generator.
GenFilters ==
    {NoFilters,
     [NoFilters EXCEPT !.exclude_table = Some(<<<<"B">>>>)],
     [NoFilters EXCEPT !.include_schema = Some(<<<<"a">>>>)]}

\* Catalog.search_schema(schema_like, source_like): the rows of the query;
\* the join is made only when source_like is given.
search_schema(schema_like, source_like, fold) ==
    {sc \in db["schemata"] :
        /\ source_like.given =>
              \E so \in db["sources"] :
                 /\ so.id = sc.key[1]
                 /\ like(source_like.list, so.key[1], fold)
        /\ like(schema_like, sc.key[2], fold)}

\* [CatalogObject(r.name, r.id) for r in query.all()]: the objects of the
\* rows, in the order the store returns them.
CatalogObjects(rows) ==
    {[i \in 1..Len(l) |-> [name |-> l[i].key[2], id |-> l[i].id]] :
        l \in ListsOf(rows)}

\* table_generator(catalog, source, include_schema_regex_str, ...):
\* schemata = filter_objects(..., search_schema(source_like=source.name,
\* schema_like="%")).  `fold' is the LIKE of the catalog's store (SQLite
\* folds ASCII case, PostgreSQL does not).
table_generator_start ==
    /\ gpc = "idle"
    /\ \E source \in db["sources"], f \in GenFilters, fold \in BOOLEAN :
          /\ gArgs' = [source |-> source.id, name |-> source.key[1],
                       filters |-> f, fold |-> fold]
          /\ \E objects \in CatalogObjects(
                    search_schema(<<"%">>, Some(source.key[1]), fold)) :
                gSchemata' \in filter_objects(f.include_schema,
                                              f.exclude_schema, objects)
    /\ gpc' = "for_schema"
    /\ UNCHANGED <<gSchema, gTables, yielded>>
    /\ UNCHANGED <<storeVars, sessVars, filterVars, scanVars, jobVars, lineageVars, lookupVars, openVars, managedVars>>

\* for schema_object in schemata: schema = catalog.get_schema_by_id(...);
\* table_objects = filter_objects(..., search_tables(source_like=source.name,
\* schema_like=schema.name, table_like="%"))
table_generator_schema ==
    /\ gpc = "for_schema"
    /\ gSchemata # <<>>
    /\ LET schema == CHOOSE r \in db["schemata"] : r.id = Head(gSchemata).id
       IN /\ gSchema' = schema.id
          /\ \E objects \in CatalogObjects(
                    search_tables(<<"%">>, Some(schema.key[2]),
                                  Some(gArgs.name), gArgs.fold)) :
                gTables' \in filter_objects(gArgs.filters.include_table,
                                            gArgs.filters.exclude_table,
                                            objects)
    /\ gSchemata' = Tail(gSchemata)
    /\ gpc' = "for_table"
    /\ UNCHANGED <<gArgs, yielded>>
    /\ UNCHANGED <<storeVars, sessVars, filterVars, scanVars, jobVars, lineageVars, lookupVars, openVars, managedVars>>

\* for table_object in table_objects: table = catalog.get_table_by_id(...);
\* yield schema, table
table_generator_yield ==
    /\ gpc = "for_table"
    /\ gTables # <<>>
    /\ yielded' = Append(yielded, <<gSchema, Head(gTables).id>>)
    /\ gTables' = Tail(gTables)
    /\ UNCHANGED <<gpc, gArgs, gSchemata, gSchema>>
    /\ UNCHANGED <<storeVars, sessVars, filterVars, scanVars, jobVars, lineageVars, lookupVars, openVars, managedVars>>

\* The inner loop is exhausted: next schema.
table_generator_tables_done ==
    /\ gpc = "for_table"
    /\ gTables = <<>>
    /\ gpc' = "for_schema"
    /\ UNCHANGED <<gArgs, gSchemata, gSchema, gTables, yielded>>
    /\ UNCHANGED <<storeVars, sessVars, filterVars, scanVars, jobVars, lineageVars, lookupVars, openVars, managedVars>>

\* The outer loop is exhausted: the generator ends.
table_generator_return ==
    /\ gpc = "for_schema"
    /\ gSchemata = <<>>
    /\ gpc' = "done"
    /\ UNCHANGED <<gArgs, gSchemata, gSchema, gTables, yielded>>
    /\ UNCHANGED <<storeVars, sessVars, filterVars, scanVars, jobVars, lineageVars, lookupVars, openVars, managedVars>>

\* The catalogs table_generator is run on: the two sources, some of the
\* schemata and some of the tables of the stored schemata.
InitGenerator ==
    /\ \E schemata \in SUBSET GenSchemaRows :
          \E tables \in SUBSET {t \in GenTableRows :
                                  \E sc \in schemata : sc.id = t.key[1]} :
             db = [k \in Kinds |->
                     CASE k = "sources" -> GenSources
                       [] k = "schemata" -> schemata
                       [] k = "tables" -> tables
                       [] OTHER -> {}]
    /\ nextId = [k \in Kinds |->
                   CASE k = "sources" -> Cardinality(GenSources) + 1
                     [] k = "schemata" -> Cardinality(GenSchemaRows) + 1
                     [] k = "tables" -> Cardinality(GenTableRows) + 1
                     [] OTHER -> 1]
    /\ pc = [s \in Sessions |-> "idle"]
    /\ op = [s \in Sessions |->
               [kind |-> "sources", key |-> <<>>, extra |-> NoExtra]]
    /\ pending = [s \in Sessions |-> {}]
    /\ result = [s \in Sessions |-> 0]
    /\ error = [s \in Sessions |-> "none"]
    /\ seen = [s \in Sessions |-> {}]
    /\ calls = 0
    /\ IdleFilter
    /\ IdleScan
    /\ IdleJobs
    /\ IdleOpen
    /\ IdleManaged
    /\ IdleGenerator

NextGenerator ==
    \/ table_generator_start
    \/ table_generator_schema
    \/ table_generator_yield
    \/ table_generator_tables_done
    \/ table_generator_return

SpecGenerator == InitGenerator /\ [][NextGenerator]_vars

----------------------------------------------------------------------------
(* Claims about table_generator                                             *)

\* The pairs the generator is to yield: the schemata of the source that pass
\* the schema patterns, each with its own tables that pass the table patterns.
ExpectedPairs ==
    {<<p[1].id, p[2].id>> :
        p \in {q \in db["schemata"] \X db["tables"] :
                 /\ q[1].key[1] = gArgs.source
                 /\ q[2].key[1] = q[1].id
                 /\ PassesFilter(q[1].key[2], gArgs.filters.include_schema,
                                 gArgs.filters.exclude_schema)
                 /\ PassesFilter(q[2].key[2], gArgs.filters.include_table,
                                 gArgs.filters.exclude_table)}}

\* C30: table_generator yields each (schema, table) pair once, for exactly
\* the schemata of the given source that pass the schema patterns and the
\* tables of each such schema that pass the table patterns; it yields no
\* schema of another source and no table of another schema, whatever
\* characters the names contain.
C30_TableGenerator ==
    /\ gpc \in {"for_schema", "for_table", "done"} =>
          /\ Range(yielded) \subseteq ExpectedPairs
          /\ Len(yielded) = Cardinality(Range(yielded))
    /\ gpc = "done" => Range(yielded) = ExpectedPairs

\* table_generator has ended on source "s", which has the schemata "a" and
\* "_": it has yielded a table of schema "a" paired with schema "_".
C30_Witness ==
    /\ gpc = "done"
    /\ gArgs.name = <<"s">>
    /\ \E i \in 1..Len(yielded) :
          \E sc \in db["schemata"], t \in db["tables"] :
             /\ yielded[i] = <<sc.id, t.id>>
             /\ sc.key[2] = <<"_">>
             /\ t.key[1] # sc.id
             /\ sc.key[1] = gArgs.source

====
